---------------------------- MODULE Spec2Model ----------------------------
(***************************************************************************)
(* Verification model of the ui-automation-playwright test suite:          *)
(*   - the pytest fixtures that own the Playwright engine, the per-test    *)
(*     browser / context / page and the session API request context        *)
(*     (framework/fixtures/browser_fixtures.py, api_fixtures.py);          *)
(*   - the failure-artifact hook pytest_runtest_makereport (conftest.py);  *)
(*   - the ApiClient header merge and response pipeline                    *)
(*     (utils/api_client.py).                                              *)
(* Spec     : one pytest session running MaxTests tests.                   *)
(* SpecApi  : one ApiClient receiving setter calls and requests.           *)
(* SpecMerge: _merge_dicts applied to a base and an override mapping       *)
(*            (framework/core/config_loader.py).                           *)
(* SpecLoad : get_config in a process whose files and environment are      *)
(*            fixed.                                                       *)
(* SpecCfg  : get_config while the files and the environment change, and   *)
(*            the api_client fixture builds an ApiClient from it.          *)
(* SpecPage : the BasePage element methods (framework/core/base_page.py).  *)
(* SpecFlow : the LoginFlow assertions (flows/login_flow.py).              *)
(* SpecTool : one run of tools/generate_storage_state.py.                  *)
(***************************************************************************)
EXTENDS Integers, Sequences, FiniteSets, TLC

\* ------------------------------------------------------------------ bounds
MaxTests == 2

Tests == 1..MaxTests

\* ------------------------------------------------------------- state
VARIABLES
    pc,              \* position of the pytest runner in the session
    testNo,          \* number of the test being run (0 before the first)
    todo,            \* fixtures still to set up for the current test
    stack,           \* function-scoped fixtures set up, innermost last
    sessionStack,    \* session-scoped fixtures set up, innermost last
    funcargs,        \* item.funcargs: fixtures whose value the test holds
    setupFailed,     \* a fixture raised during setup of the current test
    callFailed,      \* the test body raised (assertion, timeout, ...)
    testsfailed,     \* session.testsfailed: failed reports logged so far
    aborted,         \* an exception escaped a hook: the run loop is left
    engine,          \* sync_playwright(): "not_started" | "running" | "stopped"
    browser,         \* [Tests -> "none" | "open" | "closed"]
    context,         \* [Tests \X CtxKinds -> "none" | "open" | "closed"]
    pageOf,          \* [Tests \X CtxKinds -> "none" | "open" | "closed"]
    tracing,         \* [Tests \X CtxKinds -> "off" | "started" | "stopped"]
    requestContext,  \* APIRequestContext: "none" | "open" | "disposed"
    calls,           \* close / stop calls made by the current test's teardown
    report,          \* what the hook did with the last TestReport
    browserType,     \* config browser.type
    storageState,    \* artifacts/storage_state.json exists
    \* ---- ApiClient (SpecApi)
    default_headers, \* ApiClient._default_headers
    auth_token,      \* ApiClient._auth_token
    enable_business_check, \* ApiClient._enable_business_check
    last,            \* outcome of the last ApiClient operation
    \* ---- _merge_dicts (SpecMerge)
    heap,            \* the dict objects allocated so far, by address
    marg,            \* the arguments of _merge_dicts
    mres,            \* its result, and the heap it started from
    \* ---- get_config (SpecLoad, SpecCfg)
    files,           \* configs/: file name -> document, or Absent
    environ,         \* os.environ["UI_AUTOMATION_ENV"], None when unset
    cache,           \* the lru_cache of get_config
    cfgLast,         \* outcome of the last configuration operation
    clientHeaders,   \* address of ApiClient._default_headers (0: no client)
    \* ---- BasePage and LoginFlow (SpecPage, SpecFlow)
    medium_timeout,  \* BasePage._medium_timeout
    pageLast,        \* outcome of the last BasePage call
    accountEnv,      \* os.environ: UI_ACCOUNT_USERNAME / UI_ACCOUNT_PASSWORD
    flowLast,        \* outcome of the last LoginFlow call
    \* ---- tools/generate_storage_state.py (SpecTool)
    toolLast         \* outcome of the last run of the generator tool

sessionVars == <<pc, testNo, todo, stack, sessionStack, funcargs, setupFailed,
                 callFailed, testsfailed, aborted, engine, browser, context, pageOf,
                 tracing, requestContext, calls, report, browserType,
                 storageState>>

apiVars == <<default_headers, auth_token, enable_business_check, last>>

mergeVars == <<heap, marg, mres>>

cfgVars == <<files, environ, cache, cfgLast, clientHeaders>>

uiVars == <<medium_timeout, pageLast, accountEnv, flowLast>>

toolVars == <<toolLast>>

libVars == <<mergeVars, cfgVars, uiVars, toolVars>>

vars == <<sessionVars, apiVars, libVars>>

CtxKinds == {"page", "auth_page"}

None == "None"


\* ===================================================================
\*  Part 0.  ApiClient (utils/api_client.py)
\* ===================================================================

\* ---- Python values as they come out of a JSON body ---------------------
\* t: the Python type; n: the numeric value of an int, bool or float (only
\* whole floats are drawn); s: the text of a str.
JInt(i) == [t |-> "int", n |-> i, s |-> ""]

JStr(x) == [t |-> "str", n |-> 0, s |-> x]

JBool(b) == [t |-> "bool", n |-> IF b THEN 1 ELSE 0, s |-> ""]

JFloat(i) == [t |-> "float", n |-> i, s |-> ""]

JNull == [t |-> "NoneType", n |-> 0, s |-> ""]

JList == [t |-> "list", n |-> 0, s |-> ""]

IsNumber(v) == v.t \in {"int", "bool", "float"}

\* Python ==: numbers (bool included) compare by value across types.
PyEq(a, b) ==
    IF IsNumber(a) /\ IsNumber(b) THEN a.n = b.n
    ELSE a = b

\* Python truthiness, as used by `x or y`.
Truthy(v) ==
    IF IsNumber(v) THEN v.n # 0
    ELSE IF v.t = "str" THEN v.s # ""
    ELSE FALSE

Hashable(v) == v.t # "list"

EmptyDict == [k \in {} |-> ""]

\* dict.get(key): the value, or None when the key is absent
Get(data, key) == IF key \in DOMAIN data THEN data[key] ELSE JNull

\* a or b
Or(a, b) == IF Truthy(a) THEN a ELSE b

\* success_codes = {0, "0", "SUCCESS", "SUCCESSFUL", "OK"}
success_codes == {JInt(0), JStr("0"), JStr("SUCCESS"), JStr("SUCCESSFUL"), JStr("OK")}

\* `code not in success_codes` on a Python set: membership by hash and ==;
\* an unhashable operand raises TypeError.
InSet(v, set) == \E x \in set : PyEq(v, x)

\* An exception: its type, the stage that raised it and what its message
\* interpolates (expected / actual status, the length of the body preview,
\* msg and data); `context` names the interpolated values.
NoError == [type |-> "none", stage |-> "none", expected |-> 0, actual |-> 0,
            preview |-> 0, context |-> {}, msg |-> JNull, data |-> EmptyDict]

\* _assert_business_success, the branch on a "code" field: the error raised
\* (NoError when it returns).
code_check(data) ==
    LET code == data["code"] IN
    IF ~Hashable(code)
      THEN [NoError EXCEPT !.type = "TypeError", !.stage = "business"]
    ELSE IF ~InSet(code, success_codes)
      THEN [NoError EXCEPT !.type = "AssertionError", !.stage = "business",
                           !.context = {"code", "msg", "data"},
                           !.msg = Or(Or(Get(data, "msg"), Get(data, "message")), JStr("")),
                           !.data = data]
      ELSE NoError

\* _assert_business_success, the branch on a "success" field: only the
\* object True passes (`success is not True`).
success_check(data) ==
    LET success == data["success"] IN
    IF success # JBool(TRUE)
      THEN [NoError EXCEPT !.type = "AssertionError", !.stage = "business",
                           !.context = {"success", "msg", "data"},
                           !.msg = Or(Or(Get(data, "message"), Get(data, "msg")), JStr("")),
                           !.data = data]
      ELSE NoError

\* A parsed JSON body: an object with its fields, an (empty) array or null.
Obj(fields) == [kind |-> "object", fields |-> fields]

Arr == [kind |-> "array", fields |-> EmptyDict]

Null == [kind |-> "null", fields |-> EmptyDict]

\* `"code" in data` raises TypeError on None; an empty list has no member.
assert_business_success(body) ==
    LET data == body.fields IN
    IF body.kind = "null"
      THEN [error |-> [NoError EXCEPT !.type = "TypeError", !.stage = "business"],
            warned |-> FALSE]
    ELSE IF "code" \in DOMAIN data
      THEN [error |-> code_check(data), warned |-> FALSE]
    ELSE IF "success" \in DOMAIN data
      THEN [error |-> success_check(data), warned |-> FALSE]
    ELSE [error |-> NoError, warned |-> TRUE]

\* ---- optional arguments -------------------------------------------------
Some(d) == [some |-> TRUE, val |-> d]

Nothing == [some |-> FALSE, val |-> EmptyDict]

\* dict.update: b's entries over a's
Update(a, b) ==
    [k \in DOMAIN a \cup DOMAIN b |-> IF k \in DOMAIN b THEN b[k] ELSE a[k]]

Dict1(k, v) == [x \in {k} |-> v]

\* _merge_headers: defaults, then the bearer header under a truthy token,
\* then the per-call headers when truthy.
merge_headers(dflt, token, headers) ==
    LET withAuth == IF token # None /\ token # ""
                      THEN Update(dflt, Dict1("Authorization", "Bearer " \o token))
                      ELSE dflt
    IN  IF headers.some /\ DOMAIN headers.val # {}
          THEN Update(withAuth, headers.val)
          ELSE withAuth

\* ---- response text ------------------------------------------------------
\* A body text is modelled by its length in characters: a slice text[:n]
\* keeps Min(len, n) characters and a concatenation adds the lengths.
PreviewLimit == 500

\* len("...(截断)"), the marker appended to a cut preview
MarkerLen == 7

Min(a, b) == IF a <= b THEN a ELSE b

\* Mutation: the preview is the whole body text.
text_preview_uncut(text) == text

\* _assert_status: text_preview (its length) for a body text of that length
text_preview(text) ==
    IF text > PreviewLimit THEN Min(text, PreviewLimit) + MarkerLen ELSE text

\* _assert_status: AssertionError on a mismatch (it reads response.text());
\* the message interpolates both status codes and the preview.
assert_status(resp, expected_status) ==
    IF resp.status # expected_status
      THEN [NoError EXCEPT !.type = "AssertionError", !.stage = "status",
                           !.expected = expected_status, !.actual = resp.status,
                           !.preview = text_preview(resp.text),
                           !.context = {"expected_status", "actual_status",
                                        "text_preview"}]
      ELSE NoError

\* The outcome of _handle_response; `logged` names what logger.error wrote.
NoResult ==
    [stages |-> <<>>, error |-> NoError, returned |-> FALSE, value |-> Null,
     warned |-> FALSE, textRead |-> FALSE, jsonCalled |-> FALSE, logged |-> {}]

\* Mutation: the parse failure is swallowed and the raw text is returned.
parse_failure_returns_text(resp) ==
    [NoResult EXCEPT !.stages = <<"status", "parse">>, !.textRead = TRUE,
                     !.jsonCalled = TRUE, !.returned = TRUE]

\* _handle_response, the except branch around response.json(): the status
\* and the body text are logged; the ValueError raised interpolates only
\* the original exception.
parse_failure(resp) ==
    [NoResult EXCEPT !.stages = <<"status", "parse">>,
                     !.error = [NoError EXCEPT !.type = "ValueError",
                                               !.stage = "parse",
                                               !.context = {"exception"}],
                     !.logged = {"status", "text"},
                     !.textRead = TRUE, !.jsonCalled = TRUE]

\* Mutation: the per-call check_business is ignored.
business_enabled_ignoring_call(check_business, enable) == enable

\* check_business None falls back to the client default.
business_enabled(check_business, enable) ==
    IF check_business = None THEN enable ELSE check_business = "True"

\* _handle_response: status check, parse, optional business check, return.
handle_response(resp, expected_status, check_business, enable) ==
    LET e1 == assert_status(resp, expected_status) IN
    IF e1.type # "none"
      THEN [NoResult EXCEPT !.stages = <<"status">>, !.error = e1, !.textRead = TRUE]
    ELSE IF ~resp.json
      THEN parse_failure(resp)
    ELSE IF business_enabled(check_business, enable)
      THEN LET b == assert_business_success(resp.body) IN
           [NoResult EXCEPT !.stages = <<"status", "parse", "business">>,
                            !.error = b.error, !.warned = b.warned,
                            !.jsonCalled = TRUE,
                            !.returned = (b.error.type = "none"),
                            !.value = IF b.error.type = "none" THEN resp.body ELSE Null]
    ELSE [NoResult EXCEPT !.stages = <<"status", "parse">>, !.jsonCalled = TRUE,
                          !.returned = TRUE, !.value = resp.body]

NoCall ==
    [op |-> "init", headers |-> Nothing, sent |-> EmptyDict,
     resp |-> [status |-> 0, json |-> FALSE, body |-> Null, text |-> 0],
     expected_status |-> 0, check_business |-> None, result |-> NoResult]

\* ===================================================================
\*  Part 1.  pytest session: fixtures and their teardown
\* ===================================================================

\* The shapes of test functions: the function-scoped fixtures a test lists
\* (in signature order) and whether it also lists the session api_client.
TestShapes ==
    { [fix |-> f, api |-> a] :
        f \in { <<>>, <<"page">>, <<"auth_page">>,
                <<"page", "auth_page">>, <<"auth_page", "page">> },
        a \in BOOLEAN }

BrowserTypes == {"chromium", "firefox", "webkit", "edge"}

\* Fixture closure of a test: pytest sets up higher scopes first, then each
\* fixture after the fixtures it depends on; session fixtures that are
\* already active are not set up again.
FixtureOrder(shape, active) ==
    LET needEngine == shape.api \/ shape.fix # <<>>
        sess == (IF needEngine /\ "playwright_instance" \notin active
                    THEN <<"playwright_instance">> ELSE <<>>)
                \o (IF shape.api /\ "api_client" \notin active
                    THEN <<"api_client">> ELSE <<>>)
        func == IF shape.fix # <<>> THEN <<"browser">> \o shape.fix ELSE <<>>
    IN  sess \o func

Range(s) == { s[i] : i \in 1..Len(s) }

\* ---- Playwright library behaviour the fixtures rely on ----------------

\* Browser.close(): the browser and everything it owns is gone.
CloseBrowser(t) ==
    /\ browser' = [browser EXCEPT ![t] = "closed"]
    /\ context' = [c \in DOMAIN context |->
                     IF c[1] = t /\ context[c] = "open" THEN "closed" ELSE context[c]]
    /\ pageOf' = [c \in DOMAIN pageOf |->
                     IF c[1] = t /\ pageOf[c] = "open" THEN "closed" ELSE pageOf[c]]

\* Tracing.stop(): on a started recording it ends the recording (and writes
\* the archive when a path is given, unless writing fails); on a recording
\* that was never started or is already stopped it does nothing but may
\* raise.  raises is the library's choice.
TracingStop(state, withPath, raises) ==
    IF state = "started"
      THEN IF withPath /\ raises
             THEN [state |-> "started", archive |-> FALSE, raised |-> TRUE]
             ELSE [state |-> "stopped", archive |-> withPath, raised |-> FALSE]
      ELSE [state |-> state, archive |-> FALSE, raised |-> raises]

\* ---- fixture bodies ----------------------------------------------------

\* browser fixture, setup half: which launch the configured type selects.
browser_launch(type) ==
    IF type = "chromium" THEN "chromium"
    ELSE IF type = "firefox" THEN "firefox"
    ELSE IF type = "webkit" THEN "webkit"
    ELSE "ValueError"

\* Mutation: the fallback tracing stop is not guarded by try/except.
page_teardown_unguarded(trc, stopRaises) ==
    LET r == TracingStop(trc, FALSE, stopRaises)
    IN  [tracing |-> r.state,
         calls   |-> IF r.raised THEN <<"tracing.stop:raised">>
                                 ELSE <<"tracing.stop", "context.close">>,
         closed  |-> ~r.raised,
         raised  |-> r.raised]

\* page fixture, teardown half: the fallback tracing stop is guarded, so the
\* context is closed whether or not the stop raises.
page_teardown(trc, stopRaises) ==
    LET r == TracingStop(trc, FALSE, stopRaises)
    IN  [tracing |-> r.state,
         calls   |-> <<IF r.raised THEN "tracing.stop:raised" ELSE "tracing.stop",
                       "context.close">>,
         closed  |-> TRUE,
         raised  |-> FALSE]

\* page fixture, setup half: tracing state of the context it creates.
page_setup_tracing == "started"

\* auth_page fixture, setup half: tracing state of the context it creates
\* (the fixture never calls context.tracing.start).
auth_page_setup_tracing == "off"


\* ===================================================================
\*  Part 2.  The failure-artifact hook (conftest.py)
\* ===================================================================

\* What the environment does to the hook's library and file-system calls.
HookEnvs ==
    [ shotPathRaises : BOOLEAN,   \* get_screenshot_path raises (os.makedirs)
      shotRaises      : BOOLEAN,   \* page.screenshot raises
      tracePathRaises : BOOLEAN,   \* get_trace_path raises (os.makedirs)
      stopRaises      : BOOLEAN ]  \* tracing.stop(path=...) raises

\* Extras another plugin may already have put on the report.
InitialExtras == { <<>>, <<"other">> }

\* Mutation: the hook does not look at report.when.
hook_is_call_always(when) == TRUE

\* if report.when != "call": return
hook_is_call(when) == when = "call"

\* Mutation: auth_page is preferred over page.
find_page_auth_first(fa) ==
    IF "auth_page" \in fa THEN "auth_page"
    ELSE IF "page" \in fa THEN "page"
    ELSE None

\* page = item.funcargs.get("page") or item.funcargs.get("auth_page")
find_page(fa) ==
    IF "page" \in fa THEN "page"
    ELSE IF "auth_page" \in fa THEN "auth_page"
    ELSE None

\* A hook run that captured nothing.
Quiet(when, failed, extra0) ==
    [ when |-> when, failed |-> failed, extra0 |-> extra0, extra |-> extra0,
      modified |-> FALSE, pageUsed |-> None, warned |-> FALSE,
      shotPath |-> FALSE, shot |-> FALSE, tracePath |-> FALSE,
      stop |-> FALSE, stopOn |-> None, archive |-> FALSE,
      swallowed |-> 0, escaped |-> FALSE, tracing |-> None ]

\* pytest_runtest_makereport after the yield: the effects of one hook run on
\* a report of phase `when` with outcome `failed`, for a test holding the
\* fixture values `fa`, whose contexts have tracing states `trc`.
pytest_runtest_makereport(when, failed, fa, extra0, trc, env) ==
    LET q == Quiet(when, failed, extra0) IN
    IF ~hook_is_call(when) THEN q
    ELSE IF ~failed THEN [q EXCEPT !.modified = TRUE]
    ELSE
      LET pg == find_page(fa) IN
      IF pg = None
        THEN [q EXCEPT !.modified = TRUE, !.warned = TRUE]
      ELSE IF env.shotPathRaises
        \* get_screenshot_path is called before the try block
        THEN [q EXCEPT !.pageUsed = pg, !.shotPath = TRUE, !.escaped = TRUE]
      ELSE
        LET e1 == IF env.shotRaises THEN extra0 ELSE Append(extra0, "image")
            s1 == IF env.shotRaises THEN 1 ELSE 0
            q1 == [q EXCEPT !.pageUsed = pg, !.shotPath = TRUE, !.shot = TRUE,
                            !.extra = e1, !.swallowed = s1]
        IN
        IF env.tracePathRaises
          \* get_trace_path is called before the second try block
          THEN [q1 EXCEPT !.tracePath = TRUE, !.escaped = TRUE]
        ELSE
          LET r  == TracingStop(trc[pg], TRUE, env.stopRaises)
              e2 == IF r.raised THEN e1 ELSE Append(e1, "trace_link")
              s2 == IF r.raised THEN s1 + 1 ELSE s1
          IN [q1 EXCEPT !.tracePath = TRUE, !.stop = TRUE,
                        !.stopOn = trc[pg], !.archive = r.archive,
                        !.tracing = r.state, !.extra = e2,
                        !.swallowed = s2, !.modified = TRUE]

NoReport == Quiet("none", FALSE, <<>>)

\* ===================================================================
\*  Part 3.  The session as a state machine
\* ===================================================================

\* No _merge_dicts call: nothing allocated.
NoMerge == [base |-> 0, override |-> 0]

NoMergeResult == [done |-> FALSE, ref |-> 0, pre |-> <<>>]

MergeIdle ==
    /\ heap = <<>>
    /\ marg = NoMerge
    /\ mres = NoMergeResult

\* A file that does not exist.
Absent == [kind |-> "absent", s |-> "", items |-> EmptyDict]

NoCache == [hit |-> FALSE, ref |-> 0]

NoCfgCall ==
    [op |-> "init", cached |-> FALSE, raised |-> "none", ref |-> 0, reads |-> <<>>]

\* get_config never called: no files, empty cache, no ApiClient.
CfgIdle ==
    /\ files = EmptyDict
    /\ environ = None
    /\ cache = NoCache
    /\ cfgLast = NoCfgCall
    /\ clientHeaders = 0

\* ---- BasePage / LoginFlow values
\* An optional int argument (timeout: int | None)
IntArg(n) == [given |-> TRUE, ms |-> n]

NoArg == [given |-> FALSE, ms |-> 0]

\* What the page does to the primitives of a call: none fails (at = 0), or
\* the at-th one raises.
NoFailure == [at |-> 0, kind |-> "none"]

NoPageCall ==
    [op |-> "init", locator |-> "", timeout |-> NoArg, out |-> NoFailure,
     effective_timeout |-> 0, invoked |-> <<>>, raised |-> "none",
     returned |-> FALSE, value |-> None, logs |-> <<>>]

NoFlowCall ==
    [op |-> "init", default_account |-> FALSE, username |-> None,
     password |-> None, shown |-> {}, out |-> NoFailure, steps |-> <<>>,
     events |-> <<>>, checked |-> <<>>, raised |-> "none", returned |-> FALSE]

\* No BasePage and no LoginFlow in use.
UiIdle ==
    /\ medium_timeout = 0
    /\ pageLast = NoPageCall
    /\ accountEnv = [username |-> None, password |-> None]
    /\ flowLast = NoFlowCall

\* The generator tool has not run.
NoToolRun ==
    [op |-> "init", browser_type |-> None, launched |-> "none",
     username |-> None, accepted |-> FALSE, out |-> NoFailure, calls |-> <<>>,
     snapshot |-> FALSE, raised |-> "none", returned |-> FALSE]

ToolIdle == toolLast = NoToolRun

LibIdle == MergeIdle /\ CfgIdle /\ UiIdle /\ ToolIdle

Init ==
    /\ pc = "idle"
    /\ testNo = 0
    /\ todo = <<>>
    /\ stack = <<>>
    /\ sessionStack = <<>>
    /\ funcargs = {}
    /\ setupFailed = FALSE
    /\ callFailed = FALSE
    /\ testsfailed = 0
    /\ aborted = FALSE
    /\ engine = "not_started"
    /\ browser = [t \in Tests |-> "none"]
    /\ context = [c \in Tests \X CtxKinds |-> "none"]
    /\ pageOf = [c \in Tests \X CtxKinds |-> "none"]
    /\ tracing = [c \in Tests \X CtxKinds |-> "off"]
    /\ requestContext = "none"
    /\ calls = <<>>
    /\ report = NoReport
    /\ browserType \in BrowserTypes
    /\ storageState \in BOOLEAN
    /\ default_headers = EmptyDict
    /\ auth_token = None
    /\ enable_business_check = TRUE
    /\ last = NoCall
    /\ LibIdle

Front(s) == SubSeq(s, 1, Len(s) - 1)

Last(s) == s[Len(s)]

SetupPc(td) == IF td = <<>> THEN "report_setup" ELSE "setup"

SessionPc(ss) == IF ss = <<>> THEN "done" ELSE "session_teardown"

\* After the function-scoped finalizers: the teardown report, or, when the
\* run loop was left by an escaped exception, the session finalizers.
TeardownPc(stk, ab, ss) ==
    IF stk # <<>> THEN "teardown"
    ELSE IF ab THEN SessionPc(ss)
    ELSE "report_teardown"

StartTest ==
    /\ pc = "idle"
    /\ testNo < MaxTests
    /\ \E shape \in TestShapes :
         /\ todo' = FixtureOrder(shape, Range(sessionStack))
         /\ funcargs' = IF shape.api /\ "api_client" \in Range(sessionStack)
                          THEN {"api_client"} ELSE {}
    /\ testNo' = testNo + 1
    /\ stack' = <<>>
    /\ setupFailed' = FALSE
    /\ callFailed' = FALSE
    /\ calls' = <<>>
    /\ pc' = SetupPc(todo')
    /\ UNCHANGED <<sessionStack, testsfailed, aborted, engine, browser, context, pageOf,
                   tracing, requestContext, report, browserType, storageState>>
    /\ UNCHANGED <<apiVars, libVars>>

\* playwright_instance: with sync_playwright() as playwright: yield
SetupPlaywright ==
    /\ pc = "setup"
    /\ Head(todo) = "playwright_instance"
    /\ engine' = "running"
    /\ sessionStack' = Append(sessionStack, "playwright_instance")
    /\ todo' = Tail(todo)
    /\ pc' = SetupPc(todo')
    /\ UNCHANGED <<testNo, stack, funcargs, setupFailed, callFailed, testsfailed, aborted,
                   browser, context, pageOf, tracing, requestContext, calls,
                   report, browserType, storageState>>
    /\ UNCHANGED <<apiVars, libVars>>

\* api_client: request.new_context(...); yield client
SetupApiClient ==
    /\ pc = "setup"
    /\ Head(todo) = "api_client"
    /\ requestContext' = "open"
    /\ sessionStack' = Append(sessionStack, "api_client")
    /\ funcargs' = funcargs \cup {"api_client"}
    /\ todo' = Tail(todo)
    /\ pc' = SetupPc(todo')
    /\ UNCHANGED <<testNo, stack, setupFailed, callFailed, testsfailed, aborted, engine,
                   browser, context, pageOf, tracing, calls, report,
                   browserType, storageState>>
    /\ UNCHANGED <<apiVars, libVars>>

\* browser: launch the configured engine, or raise ValueError
SetupBrowser ==
    /\ pc = "setup"
    /\ Head(todo) = "browser"
    /\ IF browser_launch(browserType) = "ValueError"
         THEN /\ setupFailed' = TRUE
              /\ todo' = <<>>
              /\ pc' = "report_setup"
              /\ UNCHANGED <<browser, stack>>
         ELSE /\ browser' = [browser EXCEPT ![testNo] = "open"]
              /\ stack' = Append(stack, "browser")
              /\ todo' = Tail(todo)
              /\ pc' = SetupPc(todo')
              /\ UNCHANGED setupFailed
    /\ UNCHANGED <<testNo, sessionStack, funcargs, callFailed, testsfailed, aborted, engine,
                   context, pageOf, tracing, requestContext, calls, report,
                   browserType, storageState>>
    /\ UNCHANGED <<apiVars, libVars>>

\* page: new_context, tracing.start, new_page, yield page
SetupPage ==
    /\ pc = "setup"
    /\ Head(todo) = "page"
    /\ context' = [context EXCEPT ![<<testNo, "page">>] = "open"]
    /\ tracing' = [tracing EXCEPT ![<<testNo, "page">>] = page_setup_tracing]
    /\ pageOf' = [pageOf EXCEPT ![<<testNo, "page">>] = "open"]
    /\ stack' = Append(stack, "page")
    /\ funcargs' = funcargs \cup {"page"}
    /\ todo' = Tail(todo)
    /\ pc' = SetupPc(todo')
    /\ UNCHANGED <<testNo, sessionStack, setupFailed, callFailed, testsfailed, aborted,
                   engine, browser, requestContext, calls, report,
                   browserType, storageState>>
    /\ UNCHANGED <<apiVars, libVars>>

\* Mutation: auth_page does not look for the snapshot file before it
\* creates its context and page.
SetupAuthPage_NoCheck ==
    /\ pc = "setup"
    /\ Head(todo) = "auth_page"
    /\ context' = [context EXCEPT ![<<testNo, "auth_page">>] = "open"]
    /\ tracing' = [tracing EXCEPT
                     ![<<testNo, "auth_page">>] = auth_page_setup_tracing]
    /\ pageOf' = [pageOf EXCEPT ![<<testNo, "auth_page">>] = "open"]
    /\ stack' = Append(stack, "auth_page")
    /\ funcargs' = funcargs \cup {"auth_page"}
    /\ todo' = Tail(todo)
    /\ pc' = SetupPc(todo')
    /\ UNCHANGED <<testNo, sessionStack, setupFailed, callFailed, testsfailed, aborted,
                   engine, browser, requestContext, calls, report, browserType,
                   storageState>>
    /\ UNCHANGED <<apiVars, libVars>>

\* auth_page: raise FileNotFoundError without the snapshot file, else
\* new_context(storage_state=...), new_page, yield page
SetupAuthPage ==
    /\ pc = "setup"
    /\ Head(todo) = "auth_page"
    /\ IF ~storageState
         THEN /\ setupFailed' = TRUE
              /\ todo' = <<>>
              /\ pc' = "report_setup"
              /\ UNCHANGED <<context, tracing, pageOf, stack, funcargs>>
         ELSE /\ context' = [context EXCEPT ![<<testNo, "auth_page">>] = "open"]
              /\ tracing' = [tracing EXCEPT
                               ![<<testNo, "auth_page">>] = auth_page_setup_tracing]
              /\ pageOf' = [pageOf EXCEPT ![<<testNo, "auth_page">>] = "open"]
              /\ stack' = Append(stack, "auth_page")
              /\ funcargs' = funcargs \cup {"auth_page"}
              /\ todo' = Tail(todo)
              /\ pc' = SetupPc(todo')
              /\ UNCHANGED setupFailed
    /\ UNCHANGED <<testNo, sessionStack, callFailed, testsfailed, aborted, engine, browser,
                   requestContext, calls, report, browserType, storageState>>
    /\ UNCHANGED <<apiVars, libVars>>


\* The test body runs; it passes or raises (assertion failure, timeout).
CallTest ==
    /\ pc = "call"
    /\ \E f \in BOOLEAN : callFailed' = f
    /\ pc' = "report_call"
    /\ UNCHANGED <<testNo, todo, stack, sessionStack, funcargs, setupFailed,
                   testsfailed, aborted, engine, browser, context, pageOf, tracing,
                   requestContext, calls, report, browserType, storageState>>
    /\ UNCHANGED <<apiVars, libVars>>

ReportPcs == {"report_setup", "report_call", "report_teardown"}

WhenOf(p) ==
    IF p = "report_setup" THEN "setup"
    ELSE IF p = "report_call" THEN "call"
    ELSE "teardown"

\* pytest builds the TestReport of a phase and the hook post-processes it.
MakeReport ==
    /\ pc \in ReportPcs
    /\ \E env \in HookEnvs, extra0 \in InitialExtras :
         LET when   == WhenOf(pc)
             failed == IF when = "setup" THEN setupFailed
                       ELSE IF when = "call" THEN callFailed
                       ELSE FALSE
             trc    == [k \in CtxKinds |-> tracing[<<testNo, k>>]]
             r      == pytest_runtest_makereport(when, failed, funcargs,
                                                 extra0, trc, env)
         IN  /\ report' = r
             /\ tracing' = IF r.stop
                             THEN [tracing EXCEPT ![<<testNo, r.pageUsed>>] = r.tracing]
                             ELSE tracing
             /\ aborted' = r.escaped
             \* the report is logged unless the hook raised
             /\ testsfailed' = IF failed /\ ~r.escaped THEN testsfailed + 1
                               ELSE testsfailed
             /\ pc' = IF r.escaped THEN TeardownPc(stack, TRUE, sessionStack)
                      ELSE IF when = "setup"
                        THEN (IF setupFailed
                                THEN TeardownPc(stack, FALSE, sessionStack)
                                ELSE "call")
                      ELSE IF when = "call"
                        THEN TeardownPc(stack, FALSE, sessionStack)
                      ELSE "idle"
    /\ UNCHANGED <<testNo, todo, stack, sessionStack, funcargs, setupFailed,
                   callFailed, engine, browser, context, pageOf,
                   requestContext, calls, browserType, storageState>>
    /\ UNCHANGED <<apiVars, libVars>>

\* page, after the yield: guarded tracing.stop(), then context.close()
TeardownPage ==
    /\ pc = "teardown"
    /\ Last(stack) = "page"
    /\ \E stopRaises \in BOOLEAN :
         LET r == page_teardown(tracing[<<testNo, "page">>], stopRaises)
         IN  /\ tracing' = [tracing EXCEPT ![<<testNo, "page">>] = r.tracing]
             /\ context' = IF r.closed
                             THEN [context EXCEPT ![<<testNo, "page">>] = "closed"]
                             ELSE context
             /\ pageOf' = IF r.closed
                            THEN [pageOf EXCEPT ![<<testNo, "page">>] = "closed"]
                            ELSE pageOf
             /\ calls' = calls \o r.calls
    /\ stack' = Front(stack)
    /\ pc' = TeardownPc(stack', aborted, sessionStack)
    /\ UNCHANGED <<testNo, todo, sessionStack, funcargs, setupFailed,
                   callFailed, testsfailed, aborted, engine, browser, requestContext,
                   report, browserType, storageState>>
    /\ UNCHANGED <<apiVars, libVars>>

\* auth_page, after the yield: context.close()
TeardownAuthPage ==
    /\ pc = "teardown"
    /\ Last(stack) = "auth_page"
    /\ context' = [context EXCEPT ![<<testNo, "auth_page">>] = "closed"]
    /\ pageOf' = [pageOf EXCEPT ![<<testNo, "auth_page">>] = "closed"]
    /\ calls' = Append(calls, "auth_context.close")
    /\ stack' = Front(stack)
    /\ pc' = TeardownPc(stack', aborted, sessionStack)
    /\ UNCHANGED <<testNo, todo, sessionStack, funcargs, setupFailed,
                   callFailed, testsfailed, aborted, engine, browser, tracing,
                   requestContext, report, browserType, storageState>>
    /\ UNCHANGED <<apiVars, libVars>>

\* Mutation: the browser finalizer returns without closing the browser.
TeardownBrowser_NoClose ==
    /\ pc = "teardown"
    /\ Last(stack) = "browser"
    /\ stack' = Front(stack)
    /\ pc' = TeardownPc(stack', aborted, sessionStack)
    /\ UNCHANGED <<testNo, todo, sessionStack, funcargs, setupFailed,
                   callFailed, testsfailed, aborted, engine, tracing,
                   requestContext, report, browserType, storageState,
                   browser, context, pageOf, calls>>
    /\ UNCHANGED <<apiVars, libVars>>

\* browser, after the yield: browser.close()
TeardownBrowser ==
    /\ pc = "teardown"
    /\ Last(stack) = "browser"
    /\ CloseBrowser(testNo)
    /\ calls' = Append(calls, "browser.close")
    /\ stack' = Front(stack)
    /\ pc' = TeardownPc(stack', aborted, sessionStack)
    /\ UNCHANGED <<testNo, todo, sessionStack, funcargs, setupFailed,
                   callFailed, testsfailed, aborted, engine, tracing, requestContext,
                   report, browserType, storageState>>
    /\ UNCHANGED <<apiVars, libVars>>

\* No test is left to run: pytest_sessionfinish tears the session fixtures down.
EndSession ==
    /\ pc = "idle"
    /\ pc' = SessionPc(sessionStack)
    /\ UNCHANGED <<testNo, todo, stack, sessionStack, funcargs, setupFailed,
                   callFailed, testsfailed, aborted, engine, browser, context, pageOf,
                   tracing, requestContext, calls, report, browserType,
                   storageState>>
    /\ UNCHANGED <<apiVars, libVars>>

\* Mutation: the api_client finalizer returns without disposing the context.
TeardownApiClient_NoDispose ==
    /\ pc = "session_teardown"
    /\ Last(sessionStack) = "api_client"
    /\ sessionStack' = Front(sessionStack)
    /\ pc' = SessionPc(sessionStack')
    /\ UNCHANGED <<testNo, todo, stack, funcargs, setupFailed, callFailed,
                   testsfailed, aborted, engine, browser, context, pageOf,
                   tracing, calls, report, browserType, storageState,
                   requestContext>>
    /\ UNCHANGED <<apiVars, libVars>>

\* api_client, finally: request_context.dispose()
TeardownApiClient ==
    /\ pc = "session_teardown"
    /\ Last(sessionStack) = "api_client"
    /\ requestContext' = "disposed"
    /\ sessionStack' = Front(sessionStack)
    /\ pc' = SessionPc(sessionStack')
    /\ UNCHANGED <<testNo, todo, stack, funcargs, setupFailed, callFailed,
                   testsfailed, aborted, engine, browser, context, pageOf, tracing, calls,
                   report, browserType, storageState>>
    /\ UNCHANGED <<apiVars, libVars>>

\* playwright_instance, leaving the with block: the engine stops, and with
\* it whatever it still owns.
TeardownPlaywright ==
    /\ pc = "session_teardown"
    /\ Last(sessionStack) = "playwright_instance"
    /\ engine' = "stopped"
    /\ browser' = [t \in Tests |-> IF browser[t] = "open" THEN "closed" ELSE browser[t]]
    /\ context' = [c \in DOMAIN context |->
                     IF context[c] = "open" THEN "closed" ELSE context[c]]
    /\ pageOf' = [c \in DOMAIN pageOf |->
                     IF pageOf[c] = "open" THEN "closed" ELSE pageOf[c]]
    /\ requestContext' = IF requestContext = "open" THEN "disposed" ELSE requestContext
    /\ sessionStack' = Front(sessionStack)
    /\ pc' = SessionPc(sessionStack')
    /\ UNCHANGED <<testNo, todo, stack, funcargs, setupFailed, callFailed,
                   testsfailed, aborted, tracing, calls, report, browserType, storageState>>
    /\ UNCHANGED <<apiVars, libVars>>

Next ==
    \/ StartTest
    \/ SetupPlaywright
    \/ SetupApiClient
    \/ SetupBrowser
    \/ SetupPage
    \/ SetupAuthPage
    \/ CallTest
    \/ MakeReport
    \/ TeardownPage
    \/ TeardownAuthPage
    \/ TeardownBrowser
    \/ EndSession
    \/ TeardownApiClient
    \/ TeardownPlaywright

Spec == Init /\ [][Next]_vars


\* ===================================================================
\*  Part 4.  Properties of the session
\* ===================================================================

\* The function-scoped finalizers of the current test have all run.
PostTeardown ==
    /\ testNo >= 1
    /\ stack = <<>>
    /\ pc \in {"report_teardown", "idle", "session_teardown", "done"}

Before(s, a, b) ==
    \E i, j \in 1..Len(s) : i < j /\ s[i] = a /\ s[j] = b

\* C1: a test that got its page from the page fixture has, once its
\* finalizers ran, had context.close() and then browser.close() called,
\* whatever the test outcome and whether or not the fallback tracing stop
\* raised; context, page and browser are closed.
C1_PageTeardownAlwaysCloses ==
    (PostTeardown /\ "page" \in funcargs) =>
        /\ Before(calls, "context.close", "browser.close")
        /\ context[<<testNo, "page">>] = "closed"
        /\ pageOf[<<testNo, "page">>] = "closed"
        /\ browser[testNo] = "closed"

\* C1 witness: a failed test whose fallback tracing stop raised (the hook
\* had already stopped tracing), and context and browser are closed.
C1_Witness ==
    /\ PostTeardown
    /\ "page" \in funcargs
    /\ callFailed
    /\ "tracing.stop:raised" \in Range(calls)
    /\ tracing[<<testNo, "page">>] = "stopped"
    /\ browser[testNo] = "closed"

Nesting ==
    /\ \A c \in Tests \X CtxKinds :
         /\ pageOf[c] = "open" => context[c] = "open"
         /\ context[c] = "open" => browser[c[1]] = "open"
    /\ \A t \in Tests : browser[t] = "open" => engine = "running"
    /\ requestContext = "open" => engine = "running"

\* A parent is closed only when its children already are.
OrderedClose ==
    /\ \A t \in Tests :
         (browser[t] = "open" /\ browser'[t] # "open") =>
             \A k \in CtxKinds : context[<<t, k>>] # "open"
    /\ (engine = "running" /\ engine' # "running") =>
         /\ \A t \in Tests : browser[t] # "open"
         /\ requestContext # "open"

NestedStep == Nesting /\ Nesting' /\ OrderedClose

\* C2: in every reachable state page => context => browser => engine and
\* request context => engine, and every close happens child before parent.
C2_OwnershipNesting == [][NestedStep]_vars

\* C2 witness: a finished session that had a page context, a browser and an
\* API request context, all closed, the engine stopped.
C2_Witness ==
    /\ pc = "done"
    /\ engine = "stopped"
    /\ requestContext = "disposed"
    /\ \E t \in Tests : browser[t] = "closed" /\ context[<<t, "page">>] = "closed"

InTest == pc \in {"setup", "report_setup", "call", "report_call", "teardown"}

\* C3: a browser, context or page is open only inside the test that created
\* it: nothing of an earlier test is open while a later test runs or between
\* tests.
C3_TestIsolation ==
    \A t \in Tests :
        (\/ browser[t] = "open"
         \/ \E k \in CtxKinds : context[<<t, k>>] = "open" \/ pageOf[<<t, k>>] = "open")
        => (t = testNo /\ InTest)

\* C3 witness: the second test holds its own open browser, context and page
\* after the first test failed and its browser and context were closed.
C3_Witness ==
    /\ testNo = 2
    /\ pc = "call"
    /\ testsfailed = 1
    /\ browser[1] = "closed"
    /\ context[<<1, "page">>] = "closed"
    /\ browser[2] = "open"
    /\ context[<<2, "page">>] = "open"
    /\ pageOf[<<2, "page">>] = "open"

Captured(r) == r.shotPath \/ r.shot \/ r.tracePath \/ r.stop

\* One run of the hook, judged by the phase it ran for.
HookStepOk ==
    pc \in ReportPcs =>
        /\ Captured(report') => (pc = "report_call" /\ callFailed)
        /\ pc # "report_call" =>
              /\ ~report'.modified
              /\ report'.extra = report'.extra0
              /\ tracing' = tracing
        /\ (pc = "report_call" /\ ~callFailed) =>
              /\ ~Captured(report')
              /\ tracing' = tracing

\* C4: the hook captures only for a failed execution-phase report; a setup
\* or teardown report is left unmodified with no capture; a passing
\* execution-phase report gets no capture and no tracing is stopped.
C4_HookOnlyOnFailedCall == [][HookStepOk]_vars

\* C4 witness: the report of a failed setup phase of a test that already
\* holds a page went through the hook without capture.
C4_Witness ==
    /\ report.when = "setup"
    /\ report.failed
    /\ "page" \in funcargs
    /\ ~Captured(report)
    /\ ~report.modified

\* C5 (as claimed): no exception escapes the hook, and whenever the hook
\* found a page the trace step is attempted even if the screenshot step
\* failed.
C5_NothingEscapesHook ==
    /\ ~report.escaped
    /\ report.pageUsed # None => report.stop

\* C6: on a failed execution phase the hook uses page when the test has
\* one, auth_page only otherwise; with neither it warns, captures nothing,
\* attaches nothing, and the report stays failed.
C6_PagePreference ==
    (report.when = "call" /\ report.failed) =>
        /\ "page" \in funcargs => report.pageUsed = "page"
        /\ ("page" \notin funcargs /\ "auth_page" \in funcargs)
              => report.pageUsed = "auth_page"
        /\ ("page" \notin funcargs /\ "auth_page" \notin funcargs) =>
              /\ report.warned
              /\ ~Captured(report)
              /\ report.extra = report.extra0
              /\ ~report.escaped
              /\ report.modified
              /\ testsfailed >= 1

\* C6 witness: a failed test holding both fixtures, handled with page.
C6_Witness ==
    /\ report.when = "call"
    /\ report.failed
    /\ {"page", "auth_page"} \subseteq funcargs
    /\ report.pageUsed = "page"
    /\ report.shot

\* C7 (as claimed): every context handed to a test has tracing started, and
\* the hook's tracing stop always acts on a started recording.
C7_TracingAlwaysStarted ==
    /\ pc = "call" =>
         \A k \in CtxKinds :
             context[<<testNo, k>>] = "open" => tracing[<<testNo, k>>] = "started"
    /\ report.stop => report.stopOn = "started"


\* ===================================================================
\*  Part 5.  ApiClient as a state machine
\* ===================================================================

Methods == {"GET", "POST", "PUT", "DELETE"}

Tokens == {"", "tok"}

CommonHeaderNames == {"Authorization", "X-A"}

HeaderChoices ==
    { Nothing, Some(EmptyDict), Some(Dict1("Authorization", "call")),
      Some([k \in {"X-A", "X-B"} |-> "call"]) }

CodeValues ==
    success_codes \cup
    { JInt(1), JStr("ok"), JStr("ERROR"), JBool(FALSE), JBool(TRUE),
      JFloat(0), JNull, JList }

SuccessValues == { JBool(TRUE), JBool(FALSE), JInt(1), JStr("true") }

Bodies ==
    { Obj(Dict1("code", c)) : c \in CodeValues }
    \cup { Obj([k \in {"code", "msg"} |-> IF k = "code" THEN c ELSE JStr("bad")]) :
             c \in {JInt(0), JInt(1)} }
    \cup { Obj([k \in {"code", "msg", "message"} |->
                   IF k = "code" THEN JInt(1)
                   ELSE IF k = "msg" THEN JStr("") ELSE JStr("oops")]) }
    \cup { Obj([k \in {"code", "success"} |-> IF k = "code" THEN c ELSE JBool(b)]) :
             c \in {JInt(0), JInt(1)}, b \in BOOLEAN }
    \cup { Obj(Dict1("success", v)) : v \in SuccessValues }
    \cup { Obj([k \in {"success", "message"} |->
                   IF k = "success" THEN JBool(FALSE) ELSE JStr("oops")]) }
    \cup { Obj(EmptyDict), Obj(Dict1("msg", JStr("bad"))), Arr, Null }

\* Lengths of body texts: empty, short, and around the preview limit.
TextLengths ==
    {0, 2, PreviewLimit - 1, PreviewLimit, PreviewLimit + 1,
     PreviewLimit + MarkerLen, 2 * PreviewLimit}

\* A response with a JSON body (a short text).
JsonResponse(st, b) == [status |-> st, json |-> TRUE, body |-> b, text |-> 2]

\* A response whose body is not JSON (response.json() raises).
TextResponse(st) == [status |-> st, json |-> FALSE, body |-> Null, text |-> 2]

\* A response whose body text has the given length.
LongResponse(st, n) == [TextResponse(st) EXCEPT !.text = n]

\* Responses with the expected status 200: every body, and a non-JSON one.
Responses ==
    { JsonResponse(200, b) : b \in Bodies } \cup { TextResponse(200) }

\* (response, expected status) pairs that do not match.
Mismatches ==
    { [resp |-> r, expected_status |-> e] :
        r \in { JsonResponse(404, Obj(Dict1("code", JInt(0)))),
                JsonResponse(404, Obj(Dict1("code", JInt(1)))),
                TextResponse(404) },
        e \in {200} }
    \cup { [resp |-> r, expected_status |-> e] :
        r \in { JsonResponse(200, Obj(Dict1("code", JInt(0)))), TextResponse(200) },
        e \in {201} }

\* Mismatches and parse failures with body texts of every length drawn.
LongCalls ==
    { [resp |-> LongResponse(st, n), expected_status |-> 200] :
        st \in {200, 404, 500}, n \in TextLengths }

CheckOpts == {None, "True", "False"}

OkResponse == JsonResponse(200, Obj(Dict1("code", JInt(0))))

\* The calls drawn: every header choice on a plain response; without
\* per-call headers, every response of the expected status and every
\* mismatch, each under every check_business.
Calls ==
    { [headers |-> h, resp |-> OkResponse, expected_status |-> 200,
       check_business |-> None] : h \in HeaderChoices }
    \cup { [headers |-> Nothing, resp |-> r, expected_status |-> 200,
            check_business |-> c] : r \in Responses, c \in CheckOpts }
    \cup { [headers |-> Nothing, resp |-> m.resp,
            expected_status |-> m.expected_status, check_business |-> c] :
             m \in Mismatches, c \in CheckOpts }
    \cup { [headers |-> Nothing, resp |-> m.resp,
            expected_status |-> m.expected_status, check_business |-> None] :
             m \in LongCalls }

ApiInit ==
    /\ pc = "idle"
    /\ testNo = 0
    /\ todo = <<>>
    /\ stack = <<>>
    /\ sessionStack = <<>>
    /\ funcargs = {}
    /\ setupFailed = FALSE
    /\ callFailed = FALSE
    /\ testsfailed = 0
    /\ aborted = FALSE
    /\ engine = "running"
    /\ browser = [t \in Tests |-> "none"]
    /\ context = [c \in Tests \X CtxKinds |-> "none"]
    /\ pageOf = [c \in Tests \X CtxKinds |-> "none"]
    /\ tracing = [c \in Tests \X CtxKinds |-> "off"]
    /\ requestContext = "open"
    /\ calls = <<>>
    /\ report = NoReport
    /\ browserType = "chromium"
    /\ storageState = TRUE
    \* ApiClient.__init__
    /\ default_headers = Dict1("Content-Type", "application/json")
    /\ enable_business_check \in BOOLEAN
    /\ auth_token = None
    /\ last = NoCall
    /\ LibIdle

set_bearer_token ==
    /\ \E token \in Tokens : auth_token' = token
    /\ last' = [NoCall EXCEPT !.op = "set_bearer_token"]
    /\ UNCHANGED <<default_headers, enable_business_check>>
    /\ UNCHANGED <<sessionVars, libVars>>

set_common_header ==
    /\ \E key \in CommonHeaderNames, value \in {"default"} :
         default_headers' = Update(default_headers, Dict1(key, value))
    /\ last' = [NoCall EXCEPT !.op = "set_common_header"]
    /\ UNCHANGED <<auth_token, enable_business_check>>
    /\ UNCHANGED <<sessionVars, libVars>>

\* get / post / put / delete: merge the headers, send with the method's
\* verb, handle the response.
Request(method) ==
    /\ method \in Methods
    /\ \E c \in Calls :
         last' = [ op |-> "request",
                   headers |-> c.headers,
                   sent |-> merge_headers(default_headers, auth_token, c.headers),
                   resp |-> c.resp,
                   expected_status |-> c.expected_status,
                   check_business |-> c.check_business,
                   result |-> handle_response(c.resp, c.expected_status,
                                              c.check_business,
                                              enable_business_check) ]
    /\ UNCHANGED <<default_headers, auth_token, enable_business_check>>
    /\ UNCHANGED <<sessionVars, libVars>>

get == Request("GET")

post == Request("POST")

put == Request("PUT")

delete == Request("DELETE")

NextApi ==
    \/ set_bearer_token
    \/ set_common_header
    \/ get
    \/ post
    \/ put
    \/ delete

SpecApi == ApiInit /\ [][NextApi]_vars


\* ===================================================================
\*  Part 6.  Properties of the ApiClient
\* ===================================================================

IsPrefix(a, b) == Len(a) <= Len(b) /\ a = SubSeq(b, 1, Len(a))

Pipeline == <<"status", "parse", "business">>

\* C8: the stages of every call run in the order status, parse, business,
\* each stopping the call on failure: a status mismatch stops before the
\* body is parsed; a parse failure stops before the business check; the
\* business check runs exactly under check_business True, or None with the
\* client default True; the parsed body is returned exactly when no executed
\* stage failed.
C8_PipelineShortCircuits ==
    last.op = "request" =>
        LET r  == last.result
            ok == last.resp.status = last.expected_status
        IN  /\ r.stages # <<>>
            /\ IsPrefix(r.stages, Pipeline)
            /\ ~ok => /\ r.stages = <<"status">>
                      /\ ~r.jsonCalled
                      /\ r.error.stage = "status"
            /\ (ok /\ ~last.resp.json) =>
                      /\ r.stages = <<"status", "parse">>
                      /\ r.error.stage = "parse"
            /\ (ok /\ last.resp.json) =>
                      ("business" \in Range(r.stages)
                         <=> \/ last.check_business = "True"
                             \/ (last.check_business = None /\ enable_business_check))
            /\ r.returned <=> r.error.type = "none"
            /\ r.returned => r.value = last.resp.body
            /\ r.error.type # "none" => r.error.stage = Last(r.stages)

\* C8 witness: a call with check_business=False on a client whose default is
\* True returns a body a business check would have rejected.
C8_Witness ==
    /\ last.op = "request"
    /\ enable_business_check
    /\ last.check_business = "False"
    /\ last.resp.body = Obj(Dict1("code", JInt(1)))
    /\ last.result.returned
    /\ last.result.stages = <<"status", "parse">>

\* The text appears in the error's message (as msg=..., or inside data=...).
MessageContains(err, text) ==
    \/ err.msg.s = text
    \/ \E k \in DOMAIN err.data : err.data[k].s = text

BusinessFailure(r, data) ==
    /\ ~r.returned
    /\ r.error.type = "AssertionError"
    /\ \A k \in {"msg", "message"} \cap DOMAIN data :
           MessageContains(r.error, data[k].s)

\* C9 (as claimed): with a code field the body passes exactly when code is
\* one of 0, "0", "SUCCESS", "SUCCESSFUL", "OK" and every other code is a
\* business failure; else with a success field only true passes; else the
\* body passes with a warning; a failure is an AssertionError carrying the
\* msg/message text.
C9_BusinessCheckDecision ==
    (/\ last.op = "request"
     /\ "business" \in Range(last.result.stages)
     /\ last.resp.body.kind = "object") =>
        LET r    == last.result
            data == last.resp.body.fields
        IN  IF "code" \in DOMAIN data
              THEN IF data["code"] \in success_codes
                     THEN r.returned
                     ELSE BusinessFailure(r, data)
            ELSE IF "success" \in DOMAIN data
              THEN IF data["success"] = JBool(TRUE)
                     THEN r.returned
                     ELSE BusinessFailure(r, data)
            ELSE r.returned /\ r.warned

\* The merge the claim describes: the bearer header is present whenever a
\* token was set.
ClaimedMerge(dflt, token, headers) ==
    LET withAuth == IF token # None
                      THEN Update(dflt, Dict1("Authorization", "Bearer " \o token))
                      ELSE dflt
    IN  Update(withAuth, headers.val)

\* C10 (as claimed): the headers sent are per-call over bearer (whenever a
\* token was set) over the client defaults.
C10_HeaderPrecedence ==
    last.op = "request" =>
        last.sent = ClaimedMerge(default_headers, auth_token, last.headers)

\* ---- C11: the status assertion and its body preview

StatusFailure ==
    /\ last.op = "request"
    /\ last.resp.status # last.expected_status

\* C11 (as claimed): on a status mismatch the call fails with an
\* AssertionError whose message holds the expected and the actual status
\* and a body preview of at most 500 characters, whatever the body length.
C11_PreviewAtMostLimit ==
    StatusFailure =>
        LET e == last.result.error IN
        /\ ~last.result.returned
        /\ e.type = "AssertionError"
        /\ {"expected_status", "actual_status", "text_preview"} \subseteq e.context
        /\ e.expected = last.expected_status
        /\ e.actual = last.resp.status
        /\ e.preview <= PreviewLimit

\* C11 (amended): on a status mismatch the call fails with an
\* AssertionError whose message holds the expected and the actual status
\* and a preview made of at most the first 500 characters of the body,
\* followed by the 7-character cut marker exactly when the body is longer
\* than 500 characters (the whole body otherwise).
C11_PreviewCutWithMarker ==
    StatusFailure =>
        LET e == last.result.error
            n == last.resp.text
        IN  /\ ~last.result.returned
            /\ e.type = "AssertionError"
            /\ {"expected_status", "actual_status", "text_preview"} \subseteq e.context
            /\ e.expected = last.expected_status
            /\ e.actual = last.resp.status
            /\ n <= PreviewLimit => e.preview = n
            /\ n > PreviewLimit => e.preview = PreviewLimit + MarkerLen

\* C11 witness: a 404 against 200 whose body is longer than the limit
\* failed with a preview longer than the limit.
C11_Witness ==
    /\ StatusFailure
    /\ last.resp.status = 404
    /\ last.expected_status = 200
    /\ last.resp.text > PreviewLimit
    /\ last.result.error.type = "AssertionError"
    /\ last.result.error.preview = PreviewLimit + MarkerLen

\* ---- C12: a body that is not JSON

ParseFailure ==
    /\ last.op = "request"
    /\ last.resp.status = last.expected_status
    /\ ~last.resp.json

\* C12 (as claimed): when the status matches and the body is not JSON the
\* call fails with an assertion-style error that itself carries the raw
\* status and the body text, and returns no value.
C12_ParseErrorCarriesContext ==
    ParseFailure =>
        /\ ~last.result.returned
        /\ last.result.error.type = "AssertionError"
        /\ {"status", "text"} \subseteq last.result.error.context

\* C12 (amended): when the status matches and the body is not JSON the
\* call fails with a ValueError whose message carries only the original
\* parse exception; the raw status and the body text are written to the
\* error log; no value is returned and the business check does not run.
C12_ParseErrorLogsContext ==
    ParseFailure =>
        /\ ~last.result.returned
        /\ last.result.error.type = "ValueError"
        /\ last.result.error.context = {"exception"}
        /\ {"status", "text"} \subseteq last.result.logged
        /\ last.result.stages = <<"status", "parse">>

\* C12 witness: a 200 answer with a long text body ended in a ValueError
\* after logging the status and the text.
C12_Witness ==
    /\ ParseFailure
    /\ last.resp.text > PreviewLimit
    /\ last.result.error.type = "ValueError"
    /\ last.result.logged = {"status", "text"}
    /\ ~last.result.returned


\* ===================================================================
\*  Part 7.  config_loader: Python dict objects and _merge_dicts
\* ===================================================================

\* No pytest session and no ApiClient take part in the library
\* specifications below.
SessionIdle ==
    /\ pc = "idle"
    /\ testNo = 0
    /\ todo = <<>>
    /\ stack = <<>>
    /\ sessionStack = <<>>
    /\ funcargs = {}
    /\ setupFailed = FALSE
    /\ callFailed = FALSE
    /\ testsfailed = 0
    /\ aborted = FALSE
    /\ engine = "not_started"
    /\ browser = [t \in Tests |-> "none"]
    /\ context = [c \in Tests \X CtxKinds |-> "none"]
    /\ pageOf = [c \in Tests \X CtxKinds |-> "none"]
    /\ tracing = [c \in Tests \X CtxKinds |-> "off"]
    /\ requestContext = "none"
    /\ calls = <<>>
    /\ report = NoReport
    /\ browserType = "chromium"
    /\ storageState = TRUE

ApiIdle ==
    /\ default_headers = EmptyDict
    /\ auth_token = None
    /\ enable_business_check = TRUE
    /\ last = NoCall

\* ---- bounds
\* deepest nesting of the mappings drawn
MaxDepth == 2

\* ---- values and documents
\* A Python value: a scalar, or a reference to a dict object on the heap.
Scalar(x) == [kind |-> "scalar", s |-> x, ref |-> 0]

DictRef(a) == [kind |-> "dict", s |-> "", ref |-> a]

\* A YAML document (and the content of a value): a scalar or a mapping.
Leaf(x) == [kind |-> "scalar", s |-> x, items |-> EmptyDict]

Map(f) == [kind |-> "dict", s |-> "", items |-> f]

\* The keys used, in the order a dict built from a document iterates them.
KeyOrder ==
    <<"a", "b", "n", "env", "api", "default_headers", "X-A", "X-C", "X-E",
      "account", "username", "password">>

\* d[k] = v on the dict object at address a
SetItem(h, a, k, v) == [h EXCEPT ![a] = Update(h[a], Dict1(k, v))]

RECURSIVE Store(_, _)
RECURSIVE StoreItems(_, _, _, _)
\* yaml.safe_load, the items of a mapping from the i-th key on: the children
\* are built first, then the dict object holding them.
StoreItems(h, items, i, obj) ==
    IF i > Len(KeyOrder)
      THEN [heap |-> Append(h, obj), val |-> DictRef(Len(h) + 1)]
    ELSE LET k == KeyOrder[i] IN
         IF k \notin DOMAIN items
           THEN StoreItems(h, items, i + 1, obj)
           ELSE LET c == Store(h, items[k]) IN
                StoreItems(c.heap, items, i + 1, Update(obj, Dict1(k, c.val)))

\* yaml.safe_load: the objects of a document, allocated on the heap
Store(h, t) ==
    IF t.kind = "scalar"
      THEN [heap |-> h, val |-> Scalar(t.s)]
      ELSE StoreItems(h, t.items, 1, EmptyDict)

RECURSIVE Deref(_, _)
\* The content of a value (what == compares and what a caller reads).
Deref(h, v) ==
    IF v.kind = "scalar"
      THEN Leaf(v.s)
      ELSE Map([k \in DOMAIN h[v.ref] |-> Deref(h, h[v.ref][k])])

\* ---- _merge_dicts
\* Mutation: the result starts empty instead of as a copy of base.
dict_copy_empty(obj) == EmptyDict

\* dict(base): a new dict object with the same items (a shallow copy)
dict_copy(obj) == obj

\* Mutation: a shallow merge, nested mappings are never merged.
both_dicts_never(a, b) == FALSE

\* isinstance(result[key], dict) and isinstance(value, dict)
both_dicts(a, b) == a.kind = "dict" /\ b.kind = "dict"

RECURSIVE merge_dicts(_, _, _)
RECURSIVE merge_items(_, _, _, _)
\* The loop `for key, value in override.items()` from the i-th key on;
\* result is the address of the dict being built.
merge_items(h, result, override, i) ==
    IF i > Len(KeyOrder)
      THEN [heap |-> h, ref |-> result]
    ELSE LET key == KeyOrder[i] IN
         IF key \notin DOMAIN h[override]
           THEN merge_items(h, result, override, i + 1)
           ELSE LET value == h[override][key] IN
                IF key \in DOMAIN h[result] /\ both_dicts(h[result][key], value)
                  THEN LET m == merge_dicts(h, h[result][key].ref, value.ref) IN
                       merge_items(SetItem(m.heap, result, key, DictRef(m.ref)),
                                   result, override, i + 1)
                  ELSE merge_items(SetItem(h, result, key, value),
                                   result, override, i + 1)

\* _merge_dicts(base, override) on the dict objects at these addresses:
\* the heap afterwards and the address of the dict returned.
merge_dicts(h, base, override) ==
    LET h1 == Append(h, dict_copy(h[base])) IN
    merge_items(h1, Len(h1), override, 1)

\* ---- the mappings drawn
ScalarLeaves == { Leaf("1"), Leaf("2") }

\* Flat mappings over the keys a and b.
LeafDicts == UNION { [ks -> ScalarLeaves] : ks \in SUBSET {"a", "b"} }

\* What sits at the bottom of a nest: a scalar or a flat mapping.
LeafValues == ScalarLeaves \cup { Map(f) : f \in LeafDicts }

\* The scalar keys beside the nested key n, at every level.
Siblings == { EmptyDict, Dict1("a", Leaf("1")), Dict1("b", Leaf("2")) }

RECURSIVE Nest(_, _, _)
\* leaf wrapped d times under the key n, each level with the sibling keys
Nest(leaf, sib, d) ==
    IF d = 0 THEN leaf
    ELSE Map(Update(sib, Dict1("n", Nest(leaf, sib, d - 1))))

Mappings ==
    { t \in { Nest(l, sb, d) : l \in LeafValues, sb \in Siblings, d \in 0..MaxDepth } :
        t.kind = "dict" }

\* ---- SpecMerge: one call of _merge_dicts on freshly loaded mappings
MergeInit ==
    /\ SessionIdle
    /\ ApiIdle
    /\ \E b \in Mappings, o \in Mappings :
         LET sb == Store(<<>>, b)
             so == Store(sb.heap, o)
         IN  /\ heap = so.heap
             /\ marg = [base |-> sb.val.ref, override |-> so.val.ref]
    /\ mres = NoMergeResult
    /\ CfgIdle
    /\ UiIdle
    /\ ToolIdle

MergeDicts ==
    /\ ~mres.done
    /\ LET m == merge_dicts(heap, marg.base, marg.override) IN
         /\ heap' = m.heap
         /\ mres' = [done |-> TRUE, ref |-> m.ref, pre |-> heap]
    /\ UNCHANGED marg
    /\ UNCHANGED <<sessionVars, apiVars, cfgVars, uiVars, toolVars>>

NextMerge == MergeDicts

SpecMerge == MergeInit /\ [][NextMerge]_vars


\* ===================================================================
\*  Part 8.  Properties of _merge_dicts
\* ===================================================================

\* The contents of the arguments (before the call) and of the result.
BaseDoc == Deref(IF mres.done THEN mres.pre ELSE heap, DictRef(marg.base))

OverrideDoc == Deref(IF mres.done THEN mres.pre ELSE heap, DictRef(marg.override))

ResultDoc == Deref(heap, DictRef(mres.ref))

\* Every object that existed before the call is as it was.
ArgumentsUntouched ==
    \A a \in 1..Len(mres.pre) : heap[a] = mres.pre[a]

SetMax(S) == CHOOSE y \in S : \A z \in S : z <= y

RECURSIVE Depth(_)
\* The number of mappings nested along the deepest path of a document.
Depth(t) ==
    IF t.kind = "scalar" THEN 0
    ELSE 1 + SetMax({0} \cup { Depth(t.items[k]) : k \in DOMAIN t.items })

\* C13: merging an empty override gives a mapping equal to base, at every
\* nesting depth, and leaves base (and every object under it) unmodified.
C13_EmptyOverrideIsIdentity ==
    (mres.done /\ OverrideDoc = Map(EmptyDict)) =>
        /\ ResultDoc = BaseDoc
        /\ ArgumentsUntouched

\* C13 witness: a base nested three mappings deep was merged with {}.
C13_Witness ==
    /\ mres.done
    /\ OverrideDoc = Map(EmptyDict)
    /\ Depth(BaseDoc) >= 3
    /\ ResultDoc = BaseDoc
    /\ mres.ref # marg.base

\* ---- keys at every nesting level, as paths
RECURSIVE Paths(_)
\* The key paths a document defines.
Paths(t) ==
    IF t.kind = "scalar" THEN {}
    ELSE UNION { {<<k>>} \cup { <<k>> \o q : q \in Paths(t.items[k]) } :
                 k \in DOMAIN t.items }

RECURSIVE At(_, _)
\* The value a document holds at a path it defines.
At(t, q) == IF q = <<>> THEN t ELSE At(t.items[Head(q)], Tail(q))

ProperPrefixes(q) == { SubSeq(q, 1, n) : n \in 1..(Len(q) - 1) }

\* C14 (as claimed): at every nesting level the result holds the override's
\* value for each key the override defines (a merged mapping where both
\* sides hold mappings), and every key only one side defines, at any
\* level and whatever collides above it, is in the result with that
\* side's value.
C14_AllKeysSurvive ==
    mres.done =>
        LET B == BaseDoc
            O == OverrideDoc
            R == ResultDoc
        IN  /\ \A q \in Paths(O) :
                 /\ q \in Paths(R)
                 /\ (q \notin Paths(B) \/ At(O, q).kind = "scalar"
                       \/ At(B, q).kind = "scalar") => At(R, q) = At(O, q)
            /\ \A q \in Paths(B) \ Paths(O) :
                 q \in Paths(R) /\ At(R, q) = At(B, q)

\* A base key is cut off when, above it, the values collide and the
\* override's is not a mapping.
CutOff(q, O) ==
    \E r \in ProperPrefixes(q) : r \in Paths(O) /\ At(O, r).kind = "scalar"

\* C14 (amended): the result holds the override's value for each key the
\* override defines; a key only the base defines keeps the base's value
\* unless a value above it collides with an override value that is not a
\* mapping, in which case the override's value replaces the base's value
\* whole and the base's keys below it are gone.
C14_KeysSurviveUnderMappings ==
    mres.done =>
        LET B == BaseDoc
            O == OverrideDoc
            R == ResultDoc
        IN  /\ \A q \in Paths(O) :
                 /\ q \in Paths(R)
                 /\ (q \notin Paths(B) \/ At(O, q).kind = "scalar"
                       \/ At(B, q).kind = "scalar") => At(R, q) = At(O, q)
            /\ \A q \in Paths(B) \ Paths(O) :
                 IF CutOff(q, O)
                   THEN q \notin Paths(R)
                   ELSE q \in Paths(R) /\ At(R, q) = At(B, q)
            /\ Paths(R) \subseteq Paths(B) \cup Paths(O)
            /\ ArgumentsUntouched

\* C14 witness: the base holds a mapping under n with a key of its own,
\* the override holds a scalar under n, and the key is gone.
C14_Witness ==
    /\ mres.done
    /\ <<"n", "a">> \in Paths(BaseDoc)
    /\ <<"n">> \in Paths(OverrideDoc)
    /\ At(OverrideDoc, <<"n">>).kind = "scalar"
    /\ At(ResultDoc, <<"n">>) = At(OverrideDoc, <<"n">>)


\* ===================================================================
\*  Part 9.  config_loader: get_config
\* ===================================================================

\* `if x:` on None or a string
NonEmpty(x) == x # None /\ x # ""

\* os.path.join(project_root, "configs", "config.yaml")
DefaultPath == "config.yaml"

\* os.path.join(project_root, "configs", f"config_{env_name}.yaml")
EnvPath(env_name) == "config_" \o env_name \o ".yaml"

\* os.path.exists(file_path)
Exists(fs, path) == path \in DOMAIN fs /\ fs[path] # Absent

\* Mutation: a missing file loads as an empty mapping.
load_yaml_file_lenient(h, fs, path) ==
    LET doc == IF ~Exists(fs, path) \/ fs[path] = Leaf(None)
                 THEN Map(EmptyDict) ELSE fs[path]
        st  == Store(h, doc)
    IN  [raised |-> "none", heap |-> st.heap, ref |-> st.val.ref]

\* _load_yaml_file: FileNotFoundError on a missing file; `yaml.safe_load(f)
\* or {}` turns an empty document (None) into a new empty dict.
load_yaml_file(h, fs, path) ==
    IF ~Exists(fs, path)
      THEN [raised |-> "FileNotFoundError", heap |-> h, ref |-> 0]
      ELSE LET doc == IF fs[path] = Leaf(None) THEN Map(EmptyDict) ELSE fs[path]
               st  == Store(h, doc)
           IN  [raised |-> "none", heap |-> st.heap, ref |-> st.val.ref]

\* Mutation: UI_AUTOMATION_ENV is ignored.
set_env_never(h, config, env_from_env) == h

\* `if env_from_env: config["env"] = env_from_env`
set_env(h, config, env_from_env) ==
    IF NonEmpty(env_from_env)
      THEN SetItem(h, config, "env", Scalar(env_from_env))
      ELSE h

\* config.get("env")
env_field(h, config) ==
    IF "env" \in DOMAIN h[config] THEN h[config]["env"] ELSE Scalar(None)

\* The body of get_config (a call the cache does not serve): what it
\* raised, the heap afterwards, the dict returned and the files it opened.
get_config(h, fs, env_from_env) ==
    LET d == load_yaml_file(h, fs, DefaultPath) IN
    IF d.raised # "none"
      THEN [raised |-> d.raised, heap |-> h, ref |-> 0, reads |-> <<>>]
    ELSE LET h1       == set_env(d.heap, d.ref, env_from_env)
             env_name == env_field(h1, d.ref)
         IN  IF /\ NonEmpty(env_name.s)
                /\ env_name.s # "default"
                /\ Exists(fs, EnvPath(env_name.s))
               THEN LET e == load_yaml_file(h1, fs, EnvPath(env_name.s))
                        m == merge_dicts(e.heap, d.ref, e.ref)
                    IN  [raised |-> "none", heap |-> m.heap, ref |-> m.ref,
                         reads |-> <<DefaultPath, EnvPath(env_name.s)>>]
               ELSE [raised |-> "none", heap |-> h1, ref |-> d.ref,
                     reads |-> <<DefaultPath>>]

\* @lru_cache(maxsize=1): a cached result is returned without running the
\* body; a call that raises caches nothing.
cached_get_config(h, fs, env_from_env, c) ==
    IF c.hit
      THEN [raised |-> "none", heap |-> h, ref |-> c.ref, reads |-> <<>>,
            cached |-> TRUE, cache |-> c]
      ELSE LET r == get_config(h, fs, env_from_env) IN
           [raised |-> r.raised, heap |-> r.heap, ref |-> r.ref, reads |-> r.reads,
            cached |-> FALSE,
            cache |-> IF r.raised = "none" THEN [hit |-> TRUE, ref |-> r.ref] ELSE c]

\* ---- the files and environments drawn
\* a document with (or, for "-", without) an env field
WithEnv(doc, e) ==
    IF e = "-" THEN doc ELSE Map(Update(doc.items, Dict1("env", Leaf(e))))

HeadersDoc(k, v) ==
    Map(Dict1("api", Map(Dict1("default_headers", Map(Dict1(k, Leaf(v)))))))

\* config.yaml: with and without api.default_headers, under every env
\* field; an empty file.
DefaultDocs ==
    { WithEnv(doc, e) :
        doc \in { Map(EmptyDict), Map(Dict1("a", Leaf("1"))),
                  Map(Update(HeadersDoc("X-C", "cfg").items, Dict1("a", Leaf("1")))) },
        e \in {"-", None, "", "default", "dev", "test"} }
    \cup { Leaf(None) }

\* config_<env>.yaml: an empty file, a scalar override, nested headers.
EnvDocs ==
    { Leaf(None), Map(Dict1("a", Leaf("2"))),
      WithEnv(HeadersDoc("X-E", "env"), "test") }

EnvValues == {None, "", "default", "dev", "test"}

FileNames == {DefaultPath, EnvPath("dev"), EnvPath("default")}

FileSystems ==
    { [f \in FileNames |->
         IF f = DefaultPath THEN d ELSE IF f = EnvPath("dev") THEN e ELSE x] :
        d \in DefaultDocs \cup {Absent},
        e \in EnvDocs \cup {Absent},
        x \in {Absent, Map(Dict1("a", Leaf("2")))} }

\* ---- SpecLoad: get_config in a process with fixed files and environment
LoadInit ==
    /\ SessionIdle
    /\ ApiIdle
    /\ MergeIdle
    /\ files \in FileSystems
    /\ environ \in EnvValues
    /\ cache = NoCache
    /\ cfgLast = NoCfgCall
    /\ clientHeaders = 0
    /\ UiIdle
    /\ ToolIdle

\* A component calls get_config().
GetConfig ==
    LET r == cached_get_config(heap, files, environ, cache) IN
    /\ heap' = r.heap
    /\ cache' = r.cache
    /\ cfgLast' = [op |-> "get_config", cached |-> r.cached, raised |-> r.raised,
                   ref |-> r.ref, reads |-> r.reads]
    /\ UNCHANGED <<files, environ, clientHeaders, marg, mres>>
    /\ UNCHANGED <<sessionVars, apiVars, uiVars, toolVars>>

NextLoad == GetConfig

SpecLoad == LoadInit /\ [][NextLoad]_vars


\* ===================================================================
\*  Part 10.  Properties of get_config
\* ===================================================================

\* The content of a file as a mapping (an empty file is an empty mapping).
DocOf(path) == IF files[path] = Leaf(None) THEN Map(EmptyDict) ELSE files[path]

\* The content of the mapping the last call returned.
ConfigDoc == Deref(heap, DictRef(cfgLast.ref))

\* ---- C16: the missing default file

\* C16: get_config raises FileNotFoundError, returning and caching nothing,
\* whenever configs/config.yaml is absent, whatever the environment
\* indicator says and whether or not an environment file exists; with the
\* default file present it does not raise, also when the environment file
\* is missing.
C16_MissingDefaultRaises ==
    cfgLast.op = "get_config" =>
        /\ ~Exists(files, DefaultPath) =>
              /\ cfgLast.raised = "FileNotFoundError"
              /\ cfgLast.ref = 0
              /\ ~cache.hit
              /\ heap = <<>>
        /\ Exists(files, DefaultPath) => cfgLast.raised = "none"

\* C16 witness: no default file, UI_AUTOMATION_ENV=dev and config_dev.yaml
\* present: the call raised and cached nothing.
C16_Witness ==
    /\ cfgLast.op = "get_config"
    /\ ~Exists(files, DefaultPath)
    /\ environ = "dev"
    /\ Exists(files, EnvPath("dev"))
    /\ cfgLast.raised = "FileNotFoundError"
    /\ ~cache.hit

\* ---- C17: the environment name and the overlay

RECURSIVE TreeMerge(_, _)
\* Deep merge of two documents: nested mappings merge, otherwise the
\* overlay's value wins.
TreeMerge(B, O) ==
    Map([k \in DOMAIN B.items \cup DOMAIN O.items |->
           IF k \notin DOMAIN O.items THEN B.items[k]
           ELSE IF k \in DOMAIN B.items /\ B.items[k].kind = "dict"
                   /\ O.items[k].kind = "dict"
                  THEN TreeMerge(B.items[k], O.items[k])
                  ELSE O.items[k]])

\* The name the claim selects: UI_AUTOMATION_ENV when set and non-empty,
\* else the default file's env field (None without one).
SelectedEnv ==
    IF NonEmpty(environ) THEN environ
    ELSE IF "env" \in DOMAIN DocOf(DefaultPath).items
           THEN DocOf(DefaultPath).items["env"].s
           ELSE None

\* The default configuration with env set to the name the variable gave.
DefaultWithEnv ==
    IF NonEmpty(environ) THEN WithEnv(DocOf(DefaultPath), environ)
    ELSE DocOf(DefaultPath)

OverlayApplies ==
    /\ NonEmpty(SelectedEnv)
    /\ SelectedEnv # "default"
    /\ Exists(files, EnvPath(SelectedEnv))

FewDefaultDocs ==
    { WithEnv(Map(Dict1("a", Leaf("1"))), "dev"),
      Map(Update(HeadersDoc("X-C", "cfg").items, Dict1("a", Leaf("1")))) }

FewEnvDocs == { Map(Dict1("a", Leaf("2"))) }

DocsOf(f) == IF f = DefaultPath THEN FewDefaultDocs ELSE FewEnvDocs

ChangingFiles == {DefaultPath, EnvPath("dev")}

CfgInit ==
    /\ SessionIdle
    /\ ApiIdle
    /\ MergeIdle
    /\ files \in { [f \in ChangingFiles |-> IF f = DefaultPath THEN d ELSE e] :
                     d \in FewDefaultDocs \cup {Absent}, e \in FewEnvDocs \cup {Absent} }
    /\ environ \in {None, "dev"}
    /\ cache = NoCache
    /\ cfgLast = NoCfgCall
    /\ clientHeaders = 0
    /\ UiIdle
    /\ ToolIdle

\* os.environ["UI_AUTOMATION_ENV"] is set, changed or removed.
SetEnviron ==
    /\ \E e \in {None, "dev", "test"} : e # environ /\ environ' = e
    /\ cfgLast' = [NoCfgCall EXCEPT !.op = "setenv"]
    /\ UNCHANGED <<files, cache, clientHeaders, mergeVars>>
    /\ UNCHANGED <<sessionVars, apiVars, uiVars, toolVars>>

\* A configuration file is written (created or replaced).
WriteFile ==
    /\ \E f \in ChangingFiles : \E doc \in DocsOf(f) :
         /\ files[f] # doc
         /\ files' = [files EXCEPT ![f] = doc]
    /\ cfgLast' = [NoCfgCall EXCEPT !.op = "write"]
    /\ UNCHANGED <<environ, cache, clientHeaders, mergeVars>>
    /\ UNCHANGED <<sessionVars, apiVars, uiVars, toolVars>>

\* A configuration file is deleted.
RemoveFile ==
    /\ \E f \in ChangingFiles :
         /\ Exists(files, f)
         /\ files' = [files EXCEPT ![f] = Absent]
    /\ cfgLast' = [NoCfgCall EXCEPT !.op = "remove"]
    /\ UNCHANGED <<environ, cache, clientHeaders, mergeVars>>
    /\ UNCHANGED <<sessionVars, apiVars, uiVars, toolVars>>

\* The dict the api_client fixture passes as default_headers:
\* api_cfg.get("default_headers") or {"Content-Type": ...}; ApiClient keeps
\* `default_headers or {}`, the same object.
fixture_default_headers(h, config) ==
    LET api == IF "api" \in DOMAIN h[config] THEN h[h[config]["api"].ref] ELSE EmptyDict
        dh  == IF "default_headers" \in DOMAIN api
                 THEN api["default_headers"] ELSE Scalar(None)
    IN  IF dh.kind = "dict" /\ DOMAIN h[dh.ref] # {}
          THEN [heap |-> h, ref |-> dh.ref]
          ELSE [heap |-> Append(h, Dict1("Content-Type",
                                         Scalar("application/json;charset=utf-8"))),
                ref |-> Len(h) + 1]

\* The session fixture api_client: get_config(), then ApiClient(...). The
\* fixture module has called get_logger(), and with it get_config(), when it
\* was imported: the call here is served from the cache.
ApiClientFixture ==
    /\ clientHeaders = 0
    /\ cache.hit
    /\ LET d == fixture_default_headers(heap, cache.ref) IN
         /\ heap' = d.heap
         /\ clientHeaders' = d.ref
    /\ cfgLast' = [op |-> "api_client", cached |-> TRUE, raised |-> "none",
                   ref |-> cache.ref, reads |-> <<>>]
    /\ UNCHANGED <<files, environ, cache, marg, mres>>
    /\ UNCHANGED <<sessionVars, apiVars, uiVars, toolVars>>

\* ApiClient.set_common_header: self._default_headers[key] = value
ClientSetCommonHeader ==
    /\ clientHeaders # 0
    /\ \E key \in {"X-A"}, value \in {"v"} :
         heap' = SetItem(heap, clientHeaders, key, Scalar(value))
    /\ cfgLast' = [NoCfgCall EXCEPT !.op = "set_common_header"]
    /\ UNCHANGED <<files, environ, cache, clientHeaders, marg, mres>>
    /\ UNCHANGED <<sessionVars, apiVars, uiVars, toolVars>>

NextCfg ==
    \/ GetConfig
    \/ SetEnviron
    \/ WriteFile
    \/ RemoveFile
    \/ ApiClientFixture
    \/ ClientSetCommonHeader

SpecCfg == CfgInit /\ [][NextCfg]_vars

\* ---- C15: the cached configuration

\* Once a call has succeeded: the cache keeps the same mapping, its contents
\* stay as they are, and a call returns it without opening a file.
CacheKept ==
    cache.hit =>
        /\ cache' = cache
        /\ Deref(heap', DictRef(cache.ref)) = Deref(heap, DictRef(cache.ref))
        /\ cfgLast'.op \in {"get_config", "api_client"} =>
              /\ cfgLast'.raised = "none"
              /\ cfgLast'.ref = cache.ref
              /\ cfgLast'.reads = <<>>

\* C15 (as claimed): after the first successful get_config() every later
\* call returns the same mapping with the same contents and reads no file,
\* whatever happened to the files and to UI_AUTOMATION_ENV, and nothing in
\* the repository modifies that mapping after load.
C15_CachedConfigStable == [][CacheKept]_vars


\* ===================================================================
\*  Part 12.  BasePage: click / fill / get_text / is_visible
\* ===================================================================

\* timeout_cfg.get("medium", 5000)
DefaultMedium == 5000

\* BasePage.__init__: the medium timeout, from the configuration when it
\* has one
init_medium_timeout(configured) ==
    IF configured.given THEN configured.ms ELSE DefaultMedium

\* `timeout or self._medium_timeout`
effective_timeout_of(timeout, medium) ==
    IF timeout.given /\ timeout.ms # 0 THEN timeout.ms ELSE medium

\* The Playwright calls of a try block run in order until one raises: the
\* calls made and the exception raised ("none" when all returned).
run_try(prims, out) ==
    IF out.at \in 1..Len(prims)
      THEN [invoked |-> SubSeq(prims, 1, out.at), raised |-> out.kind]
      ELSE [invoked |-> prims, raised |-> "none"]

\* Mutation: the timeout is swallowed and the method returns.
except_timeout_swallow(op, locator, timeout, out, medium, r, value) ==
    [op |-> op, locator |-> locator, timeout |-> timeout, out |-> out,
     effective_timeout |-> effective_timeout_of(timeout, medium),
     invoked |-> r.invoked,
     raised |-> IF r.raised = "TimeoutError" THEN "none" ELSE r.raised,
     returned |-> r.raised \in {"none", "TimeoutError"},
     value |-> IF r.raised = "none" THEN value ELSE None,
     logs |-> <<"info">>]

\* `except PlaywrightTimeoutError: logger.error(...); raise` around the
\* Playwright calls of click / fill / get_text: any other exception passes
\* through unlogged.
except_timeout_reraise(op, locator, timeout, out, medium, r, value) ==
    [op |-> op, locator |-> locator, timeout |-> timeout, out |-> out,
     effective_timeout |-> effective_timeout_of(timeout, medium),
     invoked |-> r.invoked,
     raised |-> r.raised,
     returned |-> r.raised = "none",
     value |-> IF r.raised = "none" THEN value ELSE None,
     logs |-> <<"info">> \o (IF r.raised = "TimeoutError" THEN <<"error">> ELSE <<>>)]

\* BasePage.click
click(locator, timeout, out, medium) ==
    except_timeout_reraise("click", locator, timeout, out, medium,
                           run_try(<<"page.click">>, out), None)

\* BasePage.fill
fill(locator, timeout, out, medium) ==
    except_timeout_reraise("fill", locator, timeout, out, medium,
                           run_try(<<"wait_for", "fill">>, out), None)

\* BasePage.get_text: the text is logged (info) before it is returned.
get_text(locator, timeout, out, medium) ==
    LET r == except_timeout_reraise("get_text", locator, timeout, out, medium,
                                    run_try(<<"wait_for", "inner_text">>, out), "text")
    IN  IF r.returned THEN [r EXCEPT !.logs = r.logs \o <<"info">>] ELSE r

\* BasePage.is_visible: True after wait_for returned; a timeout is logged as
\* a warning and becomes False.
is_visible(locator, timeout, out, medium) ==
    LET r == run_try(<<"wait_for">>, out) IN
    [op |-> "is_visible", locator |-> locator, timeout |-> timeout, out |-> out,
     effective_timeout |-> effective_timeout_of(timeout, medium),
     invoked |-> r.invoked,
     raised |-> IF r.raised = "TimeoutError" THEN "none" ELSE r.raised,
     returned |-> r.raised \in {"none", "TimeoutError"},
     value |-> IF r.raised = "none" THEN "True"
               ELSE IF r.raised = "TimeoutError" THEN "False" ELSE None,
     logs |-> <<"info">> \o (IF r.raised = "TimeoutError" THEN <<"warning">> ELSE <<>>)]

\* ---- the calls drawn
Locators == {"#login", ".userName"}

TimeoutArgs == { NoArg, IntArg(0), IntArg(1000) }

ConfiguredMediums == { NoArg, IntArg(8000) }

\* PlaywrightTimeoutError, or another playwright Error (page closed, ...)
FailureKinds == {"TimeoutError", "Error"}

\* Outcomes of a try block with n Playwright calls.
Outcomes(n) == {NoFailure} \cup { [at |-> i, kind |-> k] : i \in 1..n, k \in FailureKinds }

\* ---- SpecPage: a BasePage receiving calls
PageInit ==
    /\ SessionIdle
    /\ ApiIdle
    /\ MergeIdle
    /\ CfgIdle
    /\ \E c \in ConfiguredMediums : medium_timeout = init_medium_timeout(c)
    /\ pageLast = NoPageCall
    /\ accountEnv = [username |-> None, password |-> None]
    /\ flowLast = NoFlowCall
    /\ ToolIdle

Click ==
    /\ \E l \in Locators, t \in TimeoutArgs, o \in Outcomes(1) :
         pageLast' = click(l, t, o, medium_timeout)
    /\ UNCHANGED <<medium_timeout, accountEnv, flowLast>>
    /\ UNCHANGED <<sessionVars, apiVars, mergeVars, cfgVars, toolVars>>

Fill ==
    /\ \E l \in Locators, t \in TimeoutArgs, o \in Outcomes(2) :
         pageLast' = fill(l, t, o, medium_timeout)
    /\ UNCHANGED <<medium_timeout, accountEnv, flowLast>>
    /\ UNCHANGED <<sessionVars, apiVars, mergeVars, cfgVars, toolVars>>

GetText ==
    /\ \E l \in Locators, t \in TimeoutArgs, o \in Outcomes(2) :
         pageLast' = get_text(l, t, o, medium_timeout)
    /\ UNCHANGED <<medium_timeout, accountEnv, flowLast>>
    /\ UNCHANGED <<sessionVars, apiVars, mergeVars, cfgVars, toolVars>>

IsVisible ==
    /\ \E l \in Locators, t \in TimeoutArgs, o \in Outcomes(1) :
         pageLast' = is_visible(l, t, o, medium_timeout)
    /\ UNCHANGED <<medium_timeout, accountEnv, flowLast>>
    /\ UNCHANGED <<sessionVars, apiVars, mergeVars, cfgVars, toolVars>>

NextPage ==
    \/ Click
    \/ Fill
    \/ GetText
    \/ IsVisible

SpecPage == PageInit /\ [][NextPage]_vars

\* ---- C20: timeouts in the element methods

TimedOut(c) == c.out.at # 0 /\ c.out.kind = "TimeoutError"

\* C20: click, fill and get_text make each of their Playwright calls at
\* most once and, on a timeout, log an error and re-raise it (no retry, no
\* result); is_visible alone turns a timeout into a result: False, and
\* True only when the element became visible.
C20_OnlyIsVisibleSwallowsTimeout ==
    pageLast.op # "init" =>
        /\ Len(pageLast.invoked) = Cardinality(Range(pageLast.invoked))
        /\ pageLast.invoked # <<>>
        /\ IF pageLast.op = "is_visible"
             THEN /\ TimedOut(pageLast) =>
                        /\ pageLast.raised = "none"
                        /\ pageLast.returned
                        /\ pageLast.value = "False"
                  /\ pageLast.value = "True" <=> pageLast.out = NoFailure
             ELSE /\ TimedOut(pageLast) =>
                        /\ pageLast.raised = "TimeoutError"
                        /\ ~pageLast.returned
                        /\ Last(pageLast.logs) = "error"
                        /\ Len(pageLast.invoked) = pageLast.out.at
                  /\ pageLast.returned <=> pageLast.out = NoFailure

\* C20 witness: get_text timed out waiting for the element: one wait_for,
\* no inner_text, the timeout logged and raised.
C20_Witness ==
    /\ pageLast.op = "get_text"
    /\ TimedOut(pageLast)
    /\ pageLast.invoked = <<"wait_for">>
    /\ pageLast.raised = "TimeoutError"
    /\ pageLast.logs = <<"info", "error">>


\* ===================================================================
\*  Part 13.  LoginFlow: login_should_fail / login_should_success
\* ===================================================================

\* LoginPage locators of the indicators (XPaths on the message texts
\* "请输入账号", "请输入密码", "账号或密码错误"), named by what they show
USERNAME_REQUIRED_MESSAGE == "username_required"

PASSWORD_REQUIRED_MESSAGE == "password_required"

GLOBAL_ERROR_MESSAGE == "global_error"

Indicators ==
    {USERNAME_REQUIRED_MESSAGE, PASSWORD_REQUIRED_MESSAGE, GLOBAL_ERROR_MESSAGE}

\* LoginFlow.login: the browser interactions, in order (open_login_page,
\* input_username, input_password, click_login_button, wait_page_stable).
LoginSteps ==
    <<"goto", "fill_username", "fill_password", "click_login", "wait_for_load_state">>

\* ---- login
\* What login leaves behind, in order: a step description logged
\* (BaseFlow.step) or a sub-action started on the page.
StepLog(i) == [log |-> TRUE, of |-> LoginSteps[i]]

SubAction(i) == [log |-> FALSE, of |-> LoginSteps[i]]

\* Mutation: the description is logged after the sub-action it names.
action_then_step(i) == <<SubAction(i), StepLog(i)>>

\* self.step("..."), then the sub-action (wait_page_stable logs its own
\* state line between the two)
step_then_action(i) == <<StepLog(i), SubAction(i)>>

RECURSIVE login_from(_, _)
\* The body of login from its i-th sub-action on; the out.at-th one raises
\* and nothing after it runs.
login_from(i, out) ==
    IF i > Len(LoginSteps) THEN <<>>
    ELSE step_then_action(i) \o (IF out.at = i THEN <<>> ELSE login_from(i + 1, out))

\* LoginFlow.login
login(username, password, out) ==
    LET r == run_try(LoginSteps, out) IN
    [NoFlowCall EXCEPT !.op = "login", !.username = username,
                       !.password = password, !.out = out,
                       !.steps = r.invoked, !.events = login_from(1, out),
                       !.raised = r.raised, !.returned = (r.raised = "none")]

\* ---- _get_default_account
\* account_cfg.get(k) with account_cfg = config.get("account", {}); an
\* account section that is not a mapping has no get.
account_get(h, config, k) ==
    IF "account" \notin DOMAIN h[config]
      THEN [raised |-> "none", s |-> None]
    ELSE LET a == h[config]["account"] IN
         IF a.kind # "dict"
           THEN [raised |-> "AttributeError", s |-> None]
         ELSE IF k \in DOMAIN h[a.ref]
           THEN [raised |-> "none", s |-> h[a.ref][k].s]
           ELSE [raised |-> "none", s |-> None]

\* Mutation: the configuration wins over the environment variable.
config_or_env(envval, h, config, k) ==
    LET c == account_get(h, config, k) IN
    IF c.raised = "none" /\ NonEmpty(c.s) THEN c ELSE [raised |-> "none", s |-> envval]

\* os.getenv(...) or account_cfg.get(k)
env_or_config(envval, h, config, k) ==
    IF NonEmpty(envval) THEN [raised |-> "none", s |-> envval]
    ELSE account_get(h, config, k)

NoAccount(raised) == [raised |-> raised, username |-> None, password |-> None]

\* LoginFlow._get_default_account
get_default_account(h, config, env) ==
    LET u == env_or_config(env.username, h, config, "username") IN
    IF u.raised # "none" THEN NoAccount(u.raised)
    ELSE LET p == env_or_config(env.password, h, config, "password") IN
         IF p.raised # "none" THEN NoAccount(p.raised)
         ELSE IF ~NonEmpty(u.s) \/ ~NonEmpty(p.s) THEN NoAccount("ValueError")
         ELSE [raised |-> "none", username |-> u.s, password |-> p.s]

\* ---- login_should_fail
\* Mutation: an empty username alone selects the username indicator.
expected_indicator_by_username(username, password) ==
    IF username = "" THEN USERNAME_REQUIRED_MESSAGE
    ELSE IF password = "" THEN PASSWORD_REQUIRED_MESSAGE
    ELSE GLOBAL_ERROR_MESSAGE

\* The if / elif / else of login_should_fail
expected_indicator(username, password) ==
    IF username = "" /\ password # "" THEN USERNAME_REQUIRED_MESSAGE
    ELSE IF username # "" /\ password = "" THEN PASSWORD_REQUIRED_MESSAGE
    ELSE GLOBAL_ERROR_MESSAGE

\* What wait_for does on an indicator: the page shows it, or the wait
\* times out; out.at past the flow's own steps makes the wait itself fail.
indicator_wait(ind, shown, out, n) ==
    IF out.at = n + 1 THEN [at |-> 1, kind |-> out.kind]
    ELSE IF ind \in shown THEN NoFailure
    ELSE [at |-> 1, kind |-> "TimeoutError"]

\* LoginFlow.login_should_fail: login, wait_page_stable, then the assert on
\* one indicator (LoginPage.is_..._visible is BasePage.is_visible).
login_should_fail(username, password, shown, out, medium) ==
    LET steps == LoginSteps \o <<"wait_for_load_state">>
        r     == run_try(steps, out)
        base  == [NoFlowCall EXCEPT !.op = "login_should_fail",
                                    !.username = username, !.password = password,
                                    !.shown = shown, !.out = out, !.steps = r.invoked]
    IN  IF r.raised # "none"
          THEN [base EXCEPT !.raised = r.raised]
          ELSE LET ind == expected_indicator(username, password)
                   v   == is_visible(ind, NoArg,
                                     indicator_wait(ind, shown, out, Len(steps)), medium)
               IN  [base EXCEPT !.checked = <<ind>>,
                                !.raised = IF v.raised # "none" THEN v.raised
                                           ELSE IF v.value = "True" THEN "none"
                                           ELSE "AssertionError",
                                !.returned = (v.raised = "none" /\ v.value = "True")]

\* LoginFlow.login_should_success: the default account when an argument is
\* None; login; wait_page_stable; then login_page.is_success_message_visible(),
\* a method LoginPage does not define (AttributeError).
login_should_success(username, password, h, config, env, out) ==
    LET dflt == username = None \/ password = None
        acc  == IF dflt THEN get_default_account(h, config, env)
                ELSE [raised |-> "none", username |-> username, password |-> password]
        base == [NoFlowCall EXCEPT !.op = "login_should_success",
                                   !.default_account = dflt, !.out = out,
                                   !.username = acc.username, !.password = acc.password]
    IN  IF acc.raised # "none"
          THEN [base EXCEPT !.raised = acc.raised]
          ELSE LET r == run_try(LoginSteps \o <<"wait_for_load_state">>, out) IN
               [base EXCEPT !.steps = r.invoked,
                            !.raised = IF r.raised # "none" THEN r.raised
                                       ELSE "AttributeError"]

\* ---- the inputs drawn
Usernames == {"", "guang", "not_exist"}

Passwords == {"", "Aa123456", "wrong_password"}

\* configs/config.yaml: no account section, an empty one (null), or one
\* with each field absent, empty or set.
AccountDocs ==
    { Map(EmptyDict), Map(Dict1("account", Leaf(None))) }
    \cup { Map(Dict1("account", Map(f))) :
             f \in UNION { [ks -> {Leaf(""), Leaf("cfg")}] :
                           ks \in SUBSET {"username", "password"} } }

AccountEnvs == [username : {None, "", "env_user"}, password : {None, "", "env_pass"}]

\* Failures of the flow's Playwright calls: the n steps, then the wait on
\* the indicator failing with something other than a timeout.
FlowOutcomes(n) ==
    Outcomes(n) \cup { [at |-> n + 1, kind |-> "Error"] }

\* ---- SpecFlow: one call on a LoginFlow built over a loaded configuration
FlowInit ==
    /\ SessionIdle
    /\ ApiIdle
    /\ marg = NoMerge
    /\ mres = NoMergeResult
    /\ \E doc \in AccountDocs :
         LET st == Store(<<>>, doc) IN
         /\ files = Dict1(DefaultPath, doc)
         /\ heap = st.heap
         /\ cache = [hit |-> TRUE, ref |-> st.val.ref]
    /\ environ = None
    /\ cfgLast = NoCfgCall
    /\ clientHeaders = 0
    /\ medium_timeout = init_medium_timeout(NoArg)
    /\ pageLast = NoPageCall
    /\ accountEnv \in AccountEnvs
    /\ flowLast = NoFlowCall
    /\ ToolIdle

LoginShouldFail ==
    /\ flowLast.op = "init"
    /\ \E u \in Usernames, pw \in Passwords, shown \in SUBSET Indicators,
          o \in FlowOutcomes(Len(LoginSteps) + 1) :
         flowLast' = login_should_fail(u, pw, shown, o, medium_timeout)
    /\ UNCHANGED <<medium_timeout, pageLast, accountEnv>>
    /\ UNCHANGED <<sessionVars, apiVars, mergeVars, cfgVars, toolVars>>

Login ==
    /\ flowLast.op = "init"
    /\ \E u \in Usernames, pw \in Passwords, o \in Outcomes(Len(LoginSteps)) :
         flowLast' = login(u, pw, o)
    /\ UNCHANGED <<medium_timeout, pageLast, accountEnv>>
    /\ UNCHANGED <<sessionVars, apiVars, mergeVars, cfgVars, toolVars>>

LoginShouldSuccess ==
    /\ flowLast.op = "init"
    /\ \E u \in {None, "", "guang"}, pw \in {None, "Aa123456"},
          o \in Outcomes(Len(LoginSteps) + 1) :
         flowLast' = login_should_success(u, pw, heap, cache.ref, accountEnv, o)
    /\ UNCHANGED <<medium_timeout, pageLast, accountEnv>>
    /\ UNCHANGED <<sessionVars, apiVars, mergeVars, cfgVars, toolVars>>

NextFlow ==
    \/ Login
    \/ LoginShouldFail
    \/ LoginShouldSuccess

SpecFlow == FlowInit /\ [][NextFlow]_vars


\* ===================================================================
\*  Part 14.  Properties of LoginFlow
\* ===================================================================

\* The flow's own browser steps all returned: the assertion was reached.
ReachedAssert(c) ==
    /\ c.steps = LoginSteps \o <<"wait_for_load_state">>
    /\ c.out.at \notin 1..(Len(LoginSteps) + 1)

\* The indicator the claim selects from which inputs are empty.
ClaimedIndicator(username, password) ==
    IF username = "" /\ password # "" THEN USERNAME_REQUIRED_MESSAGE
    ELSE IF username # "" /\ password = "" THEN PASSWORD_REQUIRED_MESSAGE
    ELSE GLOBAL_ERROR_MESSAGE

\* The indicator became visible: the page shows it and the wait returned.
BecameVisible(c, ind) ==
    ind \in c.shown /\ c.out.at # Len(LoginSteps) + 2

\* C18: after its login steps login_should_fail checks exactly one
\* indicator, selected only by which of username / password is empty
\* (username required, password required, else the global error), and it
\* fails with an AssertionError exactly when that indicator does not
\* become visible; whatever else the page shows does not matter.
C18_IndicatorByEmptyInput ==
    flowLast.op = "login_should_fail" =>
        LET ind == ClaimedIndicator(flowLast.username, flowLast.password) IN
        IF ReachedAssert(flowLast)
          THEN /\ flowLast.checked = <<ind>>
               /\ flowLast.returned <=> BecameVisible(flowLast, ind)
               /\ flowLast.raised = "AssertionError" <=>
                     /\ ~BecameVisible(flowLast, ind)
                     /\ flowLast.out.kind # "Error"
          ELSE /\ flowLast.checked = <<>>
               /\ flowLast.raised = flowLast.out.kind
               /\ flowLast.raised # "AssertionError"

\* C18 witness: both inputs empty, the page shows both "required" messages
\* but not the global error: the global indicator was checked and the call
\* failed with an AssertionError.
C18_Witness ==
    /\ flowLast.op = "login_should_fail"
    /\ flowLast.username = ""
    /\ flowLast.password = ""
    /\ flowLast.shown = {USERNAME_REQUIRED_MESSAGE, PASSWORD_REQUIRED_MESSAGE}
    /\ flowLast.checked = <<GLOBAL_ERROR_MESSAGE>>
    /\ flowLast.raised = "AssertionError"

\* ---- C19: the default account

\* A field of the configuration's account section (None without one).
AccountField(k) ==
    LET D == DocOf(DefaultPath) IN
    IF /\ "account" \in DOMAIN D.items
       /\ D.items["account"].kind = "dict"
       /\ k \in DOMAIN D.items["account"].items
      THEN D.items["account"].items[k].s
      ELSE None

\* The source the claim names for a field: the environment variable when
\* set and non-empty, else the account section.
ClaimedField(k) ==
    IF NonEmpty(accountEnv[k]) THEN accountEnv[k] ELSE AccountField(k)

\* C19: login_should_success() without arguments takes username and
\* password each from its environment variable when that is set and
\* non-empty, else from the configuration's account section, and when
\* either ends up missing or empty it raises before any browser
\* interaction (nothing opened, filled or clicked).
C19_DefaultAccountOrError ==
    (flowLast.op = "login_should_success" /\ flowLast.default_account) =>
        IF NonEmpty(ClaimedField("username")) /\ NonEmpty(ClaimedField("password"))
          THEN /\ flowLast.username = ClaimedField("username")
               /\ flowLast.password = ClaimedField("password")
               /\ flowLast.steps # <<>>
          ELSE /\ flowLast.raised \in {"ValueError", "AttributeError"}
               /\ flowLast.steps = <<>>
               /\ flowLast.checked = <<>>
               /\ ~flowLast.returned

\* C19 witness: the username comes from the configuration, the password
\* from the environment is empty and the configuration has none: the call
\* raised ValueError with no browser step.
C19_Witness ==
    /\ flowLast.op = "login_should_success"
    /\ flowLast.default_account
    /\ AccountField("username") = "cfg"
    /\ accountEnv.password = ""
    /\ AccountField("password") = None
    /\ flowLast.raised = "ValueError"
    /\ flowLast.steps = <<>>


\* ===================================================================
\*  Part 15.  auth_page without the snapshot file
\* ===================================================================

\* The runner is about to set up auth_page and the snapshot file is absent.
AuthPageWithoutSnapshot ==
    /\ pc = "setup"
    /\ todo # <<>>
    /\ Head(todo) = "auth_page"
    /\ ~storageState

\* auth_page raised in the current test: a fixture failed in setup although
\* the browser was launched (the only other fixture that raises is browser
\* itself, which then launches nothing).
AuthPageRaised == setupFailed /\ browser[testNo] # "none"

\* The function-scoped finalizers of the current test have all run.
FinalizersDone == stack = <<>> /\ pc \notin {"setup", "report_setup"}

AuthPageStepOk ==
    /\ AuthPageWithoutSnapshot =>
          /\ setupFailed'
          /\ pc' = "report_setup"
          /\ context' = context
          /\ pageOf' = pageOf
          /\ funcargs' = funcargs
          /\ browser' = browser
    /\ AuthPageRaised' =>
          /\ context'[<<testNo', "auth_page">>] = "none"
          /\ pageOf'[<<testNo', "auth_page">>] = "none"
          /\ "auth_page" \notin funcargs'
          /\ pc' \notin {"call", "report_call"}
          /\ ~callFailed'
          /\ FinalizersDone' =>
                /\ browser'[testNo'] = "closed"
                /\ "browser.close" \in Range(calls')

\* C21: when artifacts/storage_state.json is absent the auth_page fixture
\* raises (FileNotFoundError) before it creates a context or a page, the
\* test body of that test never runs, and the browser launched for the
\* test is closed by the browser fixture's own teardown.
C21_MissingSnapshotRaisesFirst == [][AuthPageStepOk]_vars

\* C21 witness: auth_page raised, the finalizers have run: no auth context,
\* the body was not called and the browser is closed.
C21_Witness ==
    /\ AuthPageRaised
    /\ ~storageState
    /\ pc = "report_teardown"
    /\ context[<<testNo, "auth_page">>] = "none"
    /\ browser[testNo] = "closed"
    /\ calls = <<"browser.close">>


\* ===================================================================
\*  Part 16.  The timeout handed to the wait
\* ===================================================================

\* C22: in click, fill, get_text and is_visible the timeout handed to the
\* Playwright wait is the per-call timeout whenever the caller passes one
\* (any integer, 0 included), and the configured medium timeout only when
\* the caller passes none.
C22_PerCallTimeoutWins ==
    pageLast.op # "init" =>
        pageLast.effective_timeout =
            IF pageLast.timeout.given THEN pageLast.timeout.ms ELSE medium_timeout


\* ===================================================================
\*  Part 17.  The order of LoginFlow.login
\* ===================================================================

IsSubAction(e) == ~e.log

\* The sub-actions among the events of a call, in order.
SubActions(ev) ==
    LET a == SelectSeq(ev, IsSubAction) IN [j \in 1..Len(a) |-> a[j].of]

\* C23: LoginFlow.login starts its sub-actions in the order open login
\* page, fill username, fill password, click login, wait for network idle;
\* a step description is logged immediately before each sub-action; when a
\* sub-action raises no later one is started and the exception reaches the
\* caller; and login asserts nothing about the outcome.
C23_LoginOrder ==
    flowLast.op = "login" =>
        LET ev   == flowLast.events
            acts == SubActions(ev)
        IN  /\ acts # <<>>
            /\ acts = SubSeq(LoginSteps, 1, Len(acts))
            /\ acts = flowLast.steps
            /\ \A j \in 1..Len(ev) :
                  IF ev[j].log
                    THEN j < Len(ev) /\ ev[j + 1] = [ev[j] EXCEPT !.log = FALSE]
                    ELSE j > 1 /\ ev[j - 1] = [ev[j] EXCEPT !.log = TRUE]
            /\ IF flowLast.out.at \in 1..Len(LoginSteps)
                 THEN /\ Len(acts) = flowLast.out.at
                      /\ flowLast.raised = flowLast.out.kind
                      /\ ~flowLast.returned
                 ELSE /\ acts = LoginSteps
                      /\ flowLast.raised = "none"
                      /\ flowLast.returned
            /\ flowLast.checked = <<>>
            /\ flowLast.raised # "AssertionError"

\* C23 witness: filling the password timed out: three sub-actions, each
\* after its step description, no click and no wait.
C23_Witness ==
    /\ flowLast.op = "login"
    /\ flowLast.out = [at |-> 3, kind |-> "TimeoutError"]
    /\ flowLast.steps = <<"goto", "fill_username", "fill_password">>
    /\ Len(flowLast.events) = 6
    /\ flowLast.raised = "TimeoutError"


\* ===================================================================
\*  Part 18.  tools/generate_storage_state.py
\* ===================================================================

\* config.get("browser", {}).get("type", "chromium"), the same two lines in
\* the browser fixture and in the tool; a browser section that is not a
\* mapping has no get.
configured_browser_type(h, config) ==
    IF "browser" \notin DOMAIN h[config]
      THEN [raised |-> "none", type |-> "chromium"]
    ELSE LET b == h[config]["browser"] IN
         IF b.kind # "dict"
           THEN [raised |-> "AttributeError", type |-> None]
         ELSE IF "type" \in DOMAIN h[b.ref]
           THEN [raised |-> "none", type |-> h[b.ref]["type"].s]
           ELSE [raised |-> "none", type |-> "chromium"]

\* The tool's if / elif / else: every value that is neither chromium nor
\* firefox launches webkit.
tool_launch(type) ==
    IF type = "chromium" THEN "chromium"
    ELSE IF type = "firefox" THEN "firefox"
    ELSE "webkit"

\* The Playwright calls of main around the login, in order.
ToolSetup == <<"launch", "new_context", "new_page">>

ToolFinish == <<"wait_for_load_state", "storage_state", "browser.close">>

ToolCalls == ToolSetup \o LoginSteps \o ToolFinish

\* The outcome seen by the calls after the first n.
Shift(out, n) ==
    IF out.at > n THEN [at |-> out.at - n, kind |-> out.kind] ELSE NoFailure

\* LoginFlow.login_with_default_account
login_with_default_account(h, config, env, out) ==
    LET acc == get_default_account(h, config, env) IN
    IF acc.raised # "none"
      THEN [NoFlowCall EXCEPT !.op = "login_with_default_account",
                              !.default_account = TRUE, !.out = out,
                              !.raised = acc.raised]
      ELSE [login(acc.username, acc.password, out) EXCEPT
              !.op = "login_with_default_account", !.default_account = TRUE]

\* main: launch, context, page, login with the default account, wait,
\* context.storage_state(path=...), browser.close().  accepted is the
\* application's answer to the login; main never looks at it.
main(h, config, env, accepted, out) ==
    LET bt   == configured_browser_type(h, config)
        base == [NoToolRun EXCEPT !.op = "main", !.browser_type = bt.type,
                                  !.accepted = accepted, !.out = out]
    IN  IF bt.raised # "none" THEN [base EXCEPT !.raised = bt.raised]
        ELSE
        LET r1 == run_try(ToolSetup, out)
            b1 == [base EXCEPT !.launched = IF out.at = 1 THEN "none"
                                             ELSE tool_launch(bt.type),
                               !.calls = r1.invoked]
        IN  IF r1.raised # "none" THEN [b1 EXCEPT !.raised = r1.raised]
            ELSE
            LET lg == login_with_default_account(h, config, env,
                                                 Shift(out, Len(ToolSetup)))
                b2 == [b1 EXCEPT !.username = lg.username,
                                 !.calls = r1.invoked \o lg.steps]
            IN  IF lg.raised # "none" THEN [b2 EXCEPT !.raised = lg.raised]
                ELSE
                LET o3 == Shift(out, Len(ToolSetup) + Len(LoginSteps))
                    r3 == run_try(ToolFinish, o3)
                IN  [b2 EXCEPT !.calls = b2.calls \o r3.invoked,
                               !.snapshot = (o3.at \notin {1, 2}),
                               !.raised = r3.raised,
                               !.returned = (r3.raised = "none")]

\* ---- the configurations drawn
\* browser: absent, null, empty, or with a type (one unsupported name)
BrowserSections ==
    { EmptyDict, Dict1("browser", Leaf(None)), Dict1("browser", Map(EmptyDict)) }
    \cup { Dict1("browser", Map(Dict1("type", Leaf(t)))) : t \in BrowserTypes }

\* yaml.safe_load of the browser section, into the root mapping at address
\* root of a document whose other sections are loaded
StoreBrowser(h, root, b) ==
    IF DOMAIN b = {} THEN h
    ELSE LET v == b["browser"] IN
         IF v.kind = "scalar" THEN SetItem(h, root, "browser", Scalar(v.s))
         ELSE LET h2 == Append(h, [k \in DOMAIN v.items |-> Scalar(v.items[k].s)])
              IN  SetItem(h2, root, "browser", DictRef(Len(h2)))

\* ---- SpecTool: one run of the tool over a loaded configuration
ToolInit ==
    /\ SessionIdle
    /\ ApiIdle
    /\ marg = NoMerge
    /\ mres = NoMergeResult
    /\ \E a \in AccountDocs, b \in BrowserSections :
         LET st == Store(<<>>, a) IN
         /\ files = Dict1(DefaultPath, Map(Update(a.items, b)))
         /\ heap = StoreBrowser(st.heap, st.val.ref, b)
         /\ cache = [hit |-> TRUE, ref |-> st.val.ref]
    /\ environ = None
    /\ cfgLast = NoCfgCall
    /\ clientHeaders = 0
    /\ medium_timeout = init_medium_timeout(NoArg)
    /\ pageLast = NoPageCall
    /\ accountEnv \in AccountEnvs
    /\ flowLast = NoFlowCall
    /\ ToolIdle

Main ==
    /\ toolLast.op = "init"
    /\ \E accepted \in BOOLEAN, o \in Outcomes(Len(ToolCalls)) :
         toolLast' = main(heap, cache.ref, accountEnv, accepted, o)
    /\ UNCHANGED <<sessionVars, apiVars, mergeVars, cfgVars, uiVars>>

NextTool == Main

SpecTool == ToolInit /\ [][NextTool]_vars


\* ===================================================================
\*  Part 19.  Properties of the generator tool
\* ===================================================================

\* C24: the generator tool writes the snapshot file only in a run whose
\* login the application accepted; in a run where the application
\* rejected the login no snapshot is written.
C24_SnapshotOnlyAfterSuccessfulLogin ==
    (toolLast.op = "main" /\ toolLast.snapshot) => toolLast.accepted

\* The browser section of the configuration is not a mapping: reading
\* browser.type raises in the fixture and in the tool alike.
NoBrowserType(r) == r.raised = "AttributeError" /\ r.calls = <<>>

\* C25: for every configured browser.type the tool decides as the browser
\* fixture does: the engine the fixture launches for that value (chromium
\* when the key is absent) is the one the tool launches, and a value the
\* fixture rejects makes the tool launch no browser.
C25_SameBrowserDecision ==
    (toolLast.op = "main" /\ ~NoBrowserType(toolLast) /\ toolLast.out.at # 1) =>
        LET fixture == browser_launch(toolLast.browser_type) IN
        IF fixture = "ValueError"
          THEN toolLast.launched = "none" /\ toolLast.calls = <<>>
          ELSE toolLast.launched = fixture

=============================================================================
